---- MODULE Spec2Model ----
(***************************************************************************)
(* A model of the pim command line tool (jeircul/pim): the filter engine,  *)
(* the interactive prompts, the scope resolver and the activation flow of  *)
(* internal/cli, together with the process boundary of main.go.            *)
(*                                                                         *)
(* A Go string is modelled as a sequence of one-character strings, so that *)
(* case folding, trimming, prefix tests and substring containment are      *)
(* computed as the code computes them.                                     *)
(***************************************************************************)
EXTENDS Integers, Sequences, FiniteSets, TLC

VARIABLES
    filterIn,      \* filterEligibleRoles: the roles argument
    filterCfg,     \* filterEligibleRoles: the cfg argument
    filterOut,     \* filterEligibleRoles: the returned slice
    filterPc       \* "call" before the call, "ret" after it, "off" in other specifications

VARIABLES
    pc,            \* where the run of main.go stands (the blocking call or read it is at)
    argv,          \* the flags of "pim activate": [t, j, yes, mg, sub, rg, scope, role]
    cfg,           \* the ActivateConfig of the run
    err,           \* the error run() returned (NoError when nil)
    exit,          \* the exit status of the process, Running before it ends
    calls,         \* the collaborator (azpim.Client) calls made so far, in order
    answers,       \* what the collaborator answered to each call: [err, count of items listed]
    prompts,       \* the prompts opened so far: [kind, role], role = index of the role being resolved
    roles,         \* HandleActivation: roles, after the filter
    selected,      \* HandleActivation: selected
    roleIdx,       \* HandleActivation: position of the range loop over selected
    activations,   \* HandleActivation: activations, the (role, target) pairs
    resolved,      \* what determineActivationTargets returned, one entry per resolved role
    attempts,      \* the ActivateRole calls made: [role, scope, ok]
    confirmed,     \* the answer PromptYesNo returned at the batch confirmation
    items,         \* PromptMultiSelection / PromptSelection: items
    current,       \* PromptMultiSelection: current, a sequence of viewItem [idx, value]
    subs,          \* determineActivationTargets: subs of the role being resolved
    selectedSubs,  \* promptResourceGroupsForHints: selectedSubs
    subIdx,        \* promptResourceGroupsForHints: position of the range loop
    targets,       \* promptResourceGroupsForHints: targets collected so far
    rgCaller       \* who called promptResourceGroupsForHints: "hints" (line 723) or "option" (line 837)

VARIABLES
    msItems,       \* PromptMultiSelection on its own: items, each given by its search key
    msCurrent,     \* PromptMultiSelection on its own: current, as indices into items
    msInput,       \* the line read at the last turn of the loop
    msBefore,      \* current as it was when that line was read
    msResult,      \* what PromptMultiSelection returned: [err, chosen]
    msOutput,      \* what the loop printed last: [kind, shown, total]
    msPc           \* "call" before the call; "read" in the loop of PromptMultiSelection and
                   \* "returned" after it; "select" in the loop of PromptSelection and
                   \* "selected" after it

VARIABLES
    durText,       \* parseActivate on its own: the text given with -t
    durMinutes,    \* cfg.Minutes of the command that parseActivate returns, then the
                   \* minutes of the activation request
    durErr,        \* the error that parseActivate returns
    clampIn,       \* clampMinutes on its own: the minutes it is given
    durPc          \* "clamp" before clampMinutes on its own and "clamped" after it;
                   \* "flag" before parseDuration, "parsed" after it, then "accepted"
                   \* or "rejected", and "submitted" after ActivateRole

filterVars == <<filterIn, filterCfg, filterOut, filterPc>>

durationVars == <<durText, durMinutes, durErr, clampIn, durPc>>

promptVars == <<msItems, msCurrent, msInput, msBefore, msResult, msOutput, msPc>>

flowVars == <<pc, argv, cfg, err, exit, calls, answers, prompts, roles, selected, roleIdx,
              activations, resolved, attempts, confirmed, items, current, subs,
              selectedSubs, subIdx, targets, rgCaller>>

vars == <<filterIn, filterCfg, filterOut, filterPc,
          pc, argv, cfg, err, exit, calls, answers, prompts, roles, selected, roleIdx,
          activations, resolved, attempts, confirmed, items, current, subs,
          selectedSubs, subIdx, targets, rgCaller,
          msItems, msCurrent, msInput, msBefore, msResult, msOutput, msPc,
          durText, durMinutes, durErr, clampIn, durPc>>

-----------------------------------------------------------------------------
(* Package strings.                                                        *)

\* The lower-case letter of every upper-case letter.
LowerOfUpper ==
    LET upper == <<"A","B","C","D","E","F","G","H","I","J","K","L","M","N","O","P","Q","R","S","T","U","V","W","X","Y","Z">>
        lower == <<"a","b","c","d","e","f","g","h","i","j","k","l","m","n","o","p","q","r","s","t","u","v","w","x","y","z">>
    IN  [c \in {upper[i] : i \in 1..Len(upper)} |->
            lower[CHOOSE i \in 1..Len(upper) : upper[i] = c]]

LowerChar(c) == IF c \in DOMAIN LowerOfUpper THEN LowerOfUpper[c] ELSE c

ToLower(s) == [i \in 1..Len(s) |-> LowerChar(s[i])]

Contains(s, sub) ==
    \E i \in 0..(Len(s) - Len(sub)) : SubSeq(s, i + 1, i + Len(sub)) = sub

HasPrefix(s, prefix) ==
    Len(s) >= Len(prefix) /\ SubSeq(s, 1, Len(prefix)) = prefix

EqualFold(s, t) == ToLower(s) = ToLower(t)

\* strings.Index: the 0-based position of the first occurrence, -1 when absent.
Index(s, sub) ==
    IF Contains(s, sub)
    THEN CHOOSE i \in 0..(Len(s) - Len(sub)) :
            /\ SubSeq(s, i + 1, i + Len(sub)) = sub
            /\ \A j \in 0..(i - 1) : SubSeq(s, j + 1, j + Len(sub)) # sub
    ELSE -1

IsSpace(c) == c \in {" ", "\t", "\n", "\r"}

TrimSpace(s) ==
    IF \A i \in 1..Len(s) : IsSpace(s[i])
    THEN <<>>
    ELSE LET first == CHOOSE i \in 1..Len(s) :
                        ~IsSpace(s[i]) /\ \A j \in 1..(i - 1) : IsSpace(s[j])
             last  == CHOOSE i \in 1..Len(s) :
                        ~IsSpace(s[i]) /\ \A j \in (i + 1)..Len(s) : IsSpace(s[j])
         IN  SubSeq(s, first, last)

\* strings.Split(s, "/")[0]: the text before the first slash.
FirstSegment(s) ==
    IF Index(s, <<"/">>) = -1 THEN s ELSE SubSeq(s, 1, Index(s, <<"/">>))

-----------------------------------------------------------------------------
(* pkg/azpim scope utilities.                                              *)

ManagementGroupPrefix == <<"/","p","r","o","v","i","d","e","r","s","/","M","i","c","r","o","s","o","f","t",".","M","a","n","a","g","e","m","e","n","t","/","m","a","n","a","g","e","m","e","n","t","G","r","o","u","p","s","/">>
ManagementGroupPrefixLower == <<"/","p","r","o","v","i","d","e","r","s","/","m","i","c","r","o","s","o","f","t",".","m","a","n","a","g","e","m","e","n","t","/","m","a","n","a","g","e","m","e","n","t","g","r","o","u","p","s","/">>
SubscriptionPrefix == <<"/","s","u","b","s","c","r","i","p","t","i","o","n","s","/">>
ResourceGroupMarker == <<"/","r","e","s","o","u","r","c","e","G","r","o","u","p","s","/">>
ResourceGroupMarkerLower == <<"/","r","e","s","o","u","r","c","e","g","r","o","u","p","s","/">>

IsManagementGroupScope(scope) ==
    HasPrefix(ToLower(scope), ManagementGroupPrefixLower)

IDAfterPrefix(scope, prefix) ==
    IF Len(scope) < Len(prefix) THEN <<>>
    ELSE IF ~EqualFold(SubSeq(scope, 1, Len(prefix)), prefix) THEN <<>>
    ELSE FirstSegment(SubSeq(scope, Len(prefix) + 1, Len(scope)))

ManagementGroupIDFromScope(scope) == IDAfterPrefix(scope, ManagementGroupPrefix)

SubscriptionIDFromScope(scope) == IDAfterPrefix(scope, SubscriptionPrefix)

\* The second result (resourceGroup) of ResourceGroupNameFromScope.
ResourceGroupNameFromScope(scope) ==
    IF ~Contains(ToLower(scope), ResourceGroupMarkerLower) THEN <<>>
    ELSE IF Index(scope, ResourceGroupMarker) = -1 THEN <<>>
    ELSE FirstSegment(SubSeq(scope,
                             Index(scope, ResourceGroupMarker) + Len(ResourceGroupMarker) + 1,
                             Len(scope)))

-----------------------------------------------------------------------------
(* internal/cli: ActivateConfig.                                           *)

HasFilters(c) ==
    \/ Len(c.ManagementGroups) > 0
    \/ Len(c.Subscriptions) > 0
    \/ Len(c.ScopeContains) > 0
    \/ Len(c.Roles) > 0
    \/ Len(c.ResourceGroups) > 0

HasTargetHints(c) ==
    \/ Len(c.Subscriptions) > 0
    \/ Len(c.ScopeContains) > 0
    \/ Len(c.ResourceGroups) > 0

-----------------------------------------------------------------------------
(* internal/cli/filters.go: the filter engine.                             *)

\* A management-group check that looks at the display name of any scope.
matchesManagementGroupAnyScope(role, filters) ==
    IF Len(filters) = 0 THEN TRUE
    ELSE LET mGroupID == ToLower(ManagementGroupIDFromScope(role.Scope))
             display  == ToLower(role.ScopeDisplay)
         IN  \E k \in 1..Len(filters) :
                LET needle == ToLower(filters[k])
                IN  \/ (mGroupID # <<>> /\ Contains(mGroupID, needle))
                    \/ Contains(display, needle)

matchesManagementGroup(role, filters) ==
    IF Len(filters) = 0 THEN TRUE
    ELSE LET mGroupID == ToLower(ManagementGroupIDFromScope(role.Scope))
             display  == ToLower(role.ScopeDisplay)
         IN  IF mGroupID = <<>> THEN FALSE
             ELSE \E k \in 1..Len(filters) :
                    LET needle == ToLower(filters[k])
                    IN  \/ (mGroupID # <<>> /\ Contains(mGroupID, needle))
                        \/ Contains(display, needle)

\* A subscription check without the management-group passthrough.
matchesSubscriptionNoPassthrough(role, filters) ==
    IF Len(filters) = 0 THEN TRUE
    ELSE LET subID   == ToLower(SubscriptionIDFromScope(role.Scope))
             display == ToLower(role.ScopeDisplay)
         IN  IF subID = <<>> THEN FALSE
             ELSE \E k \in 1..Len(filters) :
                    LET needle == ToLower(filters[k])
                    IN  Contains(subID, needle) \/ Contains(display, needle)

matchesSubscription(role, filters) ==
    IF Len(filters) = 0 THEN TRUE
    ELSE IF IsManagementGroupScope(role.Scope) THEN TRUE
    ELSE LET subID   == ToLower(SubscriptionIDFromScope(role.Scope))
             display == ToLower(role.ScopeDisplay)
         IN  IF subID = <<>> THEN FALSE
             ELSE \E k \in 1..Len(filters) :
                    LET needle == ToLower(filters[k])
                    IN  \/ (subID # <<>> /\ Contains(subID, needle))
                        \/ Contains(display, needle)

matchesResourceGroup(role, filters) ==
    IF Len(filters) = 0 THEN TRUE
    ELSE IF IsManagementGroupScope(role.Scope) THEN TRUE
    ELSE LET rg == ResourceGroupNameFromScope(role.Scope)
         IN  IF rg = <<>> THEN FALSE
             ELSE \E k \in 1..Len(filters) :
                    Contains(ToLower(rg), ToLower(filters[k]))

matchesScopeContains(role, filters) ==
    IF Len(filters) = 0 THEN TRUE
    ELSE \E k \in 1..Len(filters) :
            LET needle == ToLower(filters[k])
            IN  \/ Contains(ToLower(role.Scope), needle)
                \/ Contains(ToLower(role.ScopeDisplay), needle)

matchesRoleName(role, filters) ==
    IF Len(filters) = 0 THEN TRUE
    ELSE \E k \in 1..Len(filters) :
            Contains(ToLower(role.RoleName), ToLower(filters[k]))

\* A filter engine that keeps a role as soon as one category matches.
filterKeepsAnyCategory(role, c) ==
    \/ (Len(c.ManagementGroups) > 0 /\ matchesManagementGroup(role, c.ManagementGroups))
    \/ (Len(c.Subscriptions) > 0 /\ matchesSubscription(role, c.Subscriptions))
    \/ (Len(c.ResourceGroups) > 0 /\ matchesResourceGroup(role, c.ResourceGroups))
    \/ (Len(c.ScopeContains) > 0 /\ matchesScopeContains(role, c.ScopeContains))
    \/ (Len(c.Roles) > 0 /\ matchesRoleName(role, c.Roles))

\* The body of the range loop of filterEligibleRoles: does the role reach the append?
filterKeeps(role, c) ==
    /\ matchesManagementGroup(role, c.ManagementGroups)
    /\ matchesSubscription(role, c.Subscriptions)
    /\ matchesResourceGroup(role, c.ResourceGroups)
    /\ matchesScopeContains(role, c.ScopeContains)
    /\ matchesRoleName(role, c.Roles)

RECURSIVE filterLoop(_, _, _, _)
filterLoop(rs, c, i, filtered) ==
    IF i > Len(rs) THEN filtered
    ELSE filterLoop(rs, c, i + 1,
                    IF filterKeeps(rs[i], c) THEN Append(filtered, rs[i])
                    ELSE filtered)

\* A filter engine that takes "no filters" to select nothing.
filterEligibleRolesEmptyOnNoFilters(rs, c) ==
    IF ~HasFilters(c) THEN <<>> ELSE filterLoop(rs, c, 1, <<>>)

filterEligibleRoles(rs, c) ==
    IF ~HasFilters(c) THEN rs ELSE filterLoop(rs, c, 1, <<>>)

-----------------------------------------------------------------------------
(* The eligible rs and hints the checks draw from.                      *)

RoleRoot ==
    [Scope        |-> <<"/","p","r","o","v","i","d","e","r","s","/","M","i","c","r","o","s","o","f","t",".","M","a","n","a","g","e","m","e","n","t","/","m","a","n","a","g","e","m","e","n","t","G","r","o","u","p","s","/","r","o","o","t">>,
     ScopeDisplay |-> <<"T","e","n","a","n","t"," ","R","o","o","t"," ","G","r","o","u","p">>,
     RoleName     |-> <<"O","w","n","e","r">>]

RoleDev ==
    [Scope        |-> <<"/","p","r","o","v","i","d","e","r","s","/","m","i","c","r","o","s","o","f","t",".","m","a","n","a","g","e","m","e","n","t","/","m","a","n","a","g","e","m","e","n","t","g","r","o","u","p","s","/","D","e","v">>,
     ScopeDisplay |-> <<"D","e","v"," ","H","u","b"," ","G","r","o","u","p">>,
     RoleName     |-> <<"R","e","a","d","e","r">>]

RoleHub ==
    [Scope        |-> <<"/","s","u","b","s","c","r","i","p","t","i","o","n","s","/","1","2","3","4","-","h","u","b">>,
     ScopeDisplay |-> <<"P","l","a","t","f","o","r","m"," ","H","u","b">>,
     RoleName     |-> <<"C","o","n","t","r","i","b","u","t","o","r">>]

RoleCore ==
    [Scope        |-> <<"/","s","u","b","s","c","r","i","p","t","i","o","n","s","/","a","b","c","d","/","r","e","s","o","u","r","c","e","G","r","o","u","p","s","/","c","o","r","e","-","r","g">>,
     ScopeDisplay |-> <<"c","o","r","e","-","r","g">>,
     RoleName     |-> <<"R","e","a","d","e","r">>]

RolePool == {RoleRoot, RoleDev, RoleHub, RoleCore}

\* All sequences over S of length at most n.
RECURSIVE SeqsUpTo(_, _)
SeqsUpTo(S, n) ==
    IF n = 0 THEN {<<>>}
    ELSE LET shorter == SeqsUpTo(S, n - 1)
         IN  shorter \cup {Append(s, x) : s \in shorter, x \in S}

MaxFilterRoles == 2

NoHints == <<>>

FilterConfigs ==
    [Justification    : {<<"f","i","x">>},
     Minutes          : {60},
     ManagementGroups : {NoHints, <<<<"R","O","O","T">>>>, <<<<"n","o","p","e">>, <<"d","e","v">>>>, <<<<"H","u","b">>>>},
     Subscriptions    : {NoHints, <<<<"1","2","3","4">>>>, <<<<"n","o","p","e">>, <<"A","B","C","D">>>>},
     ScopeContains    : {NoHints, <<<<"r","e","s","o","u","r","c","e","g","r","o","u","p","s">>>>, <<<<"h","u","b">>, <<"T","E","N","A","N","T">>>>},
     Roles            : {NoHints, <<<<"r","e","a","d","e","r">>>>, <<<<"o","w","n">>, <<"C","o","n","t","r","i","b">>>>},
     ResourceGroups   : {NoHints, <<<<"C","o","r","e">>>>, <<<<"n","o","p","e">>>>},
     Yes              : {FALSE}]

-----------------------------------------------------------------------------
(* The filter engine on its own: one call of filterEligibleRoles.          *)

FilterOff ==
    /\ filterIn = <<>>
    /\ filterCfg = <<>>
    /\ filterOut = <<>>
    /\ filterPc = "off"

\* No line has been read.
NoAnswer == <<"none">>

\* parseActivate is not run on its own.
DurationOff ==
    /\ durText = <<>>
    /\ durMinutes = 0
    /\ durErr = <<>>
    /\ clampIn = 0
    /\ durPc = "off"

\* PromptMultiSelection is not run on its own.
PromptOff ==
    /\ msItems = <<>>
    /\ msCurrent = <<>>
    /\ msInput = NoAnswer
    /\ msBefore = <<>>
    /\ msResult = <<>>
    /\ msOutput = <<>>
    /\ msPc = "off"

\* The activation flow is not running.
FlowOff ==
    /\ pc = "off"
    /\ argv = <<>>
    /\ cfg = <<>>
    /\ err = <<>>
    /\ exit = 0
    /\ calls = <<>>
    /\ answers = <<>>
    /\ prompts = <<>>
    /\ roles = <<>>
    /\ selected = <<>>
    /\ roleIdx = 0
    /\ activations = <<>>
    /\ resolved = <<>>
    /\ attempts = <<>>
    /\ confirmed = NoAnswer
    /\ items = <<>>
    /\ current = <<>>
    /\ subs = <<>>
    /\ selectedSubs = <<>>
    /\ subIdx = 0
    /\ targets = <<>>
    /\ rgCaller = "none"

InitFilter ==
    /\ FlowOff
    /\ PromptOff
    /\ DurationOff
    /\ filterIn \in SeqsUpTo(RolePool, MaxFilterRoles)
    /\ filterCfg \in FilterConfigs
    /\ filterOut = <<>>
    /\ filterPc = "call"

FilterCall ==
    /\ filterPc = "call"
    /\ filterOut' = filterEligibleRoles(filterIn, filterCfg)
    /\ filterPc' = "ret"
    /\ UNCHANGED <<filterIn, filterCfg>>
    /\ UNCHANGED flowVars
    /\ UNCHANGED promptVars
    /\ UNCHANGED durationVars

NextFilter == FilterCall

SpecFilter == InitFilter /\ [][NextFilter]_vars

-----------------------------------------------------------------------------
(* Claims about the filter engine.                                         *)

\* Some hint of the list is contained, ignoring case, in one of the fields.
AnyHintIn(hints, fields) ==
    \E k \in 1..Len(hints) : \E f \in fields :
        Contains(ToLower(f), ToLower(hints[k]))

PassesManagementGroup(role, c) ==
    \/ c.ManagementGroups = <<>>
    \/ /\ IsManagementGroupScope(role.Scope)
       /\ AnyHintIn(c.ManagementGroups,
                    {ManagementGroupIDFromScope(role.Scope), role.ScopeDisplay})

PassesSubscription(role, c) ==
    \/ c.Subscriptions = <<>>
    \/ IsManagementGroupScope(role.Scope)
    \/ /\ SubscriptionIDFromScope(role.Scope) # <<>>
       /\ AnyHintIn(c.Subscriptions,
                    {SubscriptionIDFromScope(role.Scope), role.ScopeDisplay})

PassesResourceGroup(role, c) ==
    \/ c.ResourceGroups = <<>>
    \/ IsManagementGroupScope(role.Scope)
    \/ /\ ResourceGroupNameFromScope(role.Scope) # <<>>
       /\ AnyHintIn(c.ResourceGroups, {ResourceGroupNameFromScope(role.Scope)})

PassesScopeContains(role, c) ==
    c.ScopeContains = <<>> \/ AnyHintIn(c.ScopeContains, {role.Scope, role.ScopeDisplay})

PassesRoleName(role, c) ==
    c.Roles = <<>> \/ AnyHintIn(c.Roles, {role.RoleName})

PassesAllFive(role, c) ==
    /\ PassesManagementGroup(role, c)
    /\ PassesSubscription(role, c)
    /\ PassesResourceGroup(role, c)
    /\ PassesScopeContains(role, c)
    /\ PassesRoleName(role, c)

RolesPassingAllFive(rs, c) ==
    LET Test(r) == PassesAllFive(r, c) IN SelectSeq(rs, Test)

\* C6: with at least one non-empty hint list, a call of filterEligibleRoles returns
\* exactly the rs that pass all five category checks (AND across the categories,
\* OR over the hints of one category, case-insensitive substring), in their original
\* relative order, and leaves its input list as it was.
C6_FilterAndAcrossOrWithin ==
    [][(filterPc = "call" /\ filterPc' = "ret" /\ HasFilters(filterCfg))
        => /\ filterOut' = RolesPassingAllFive(filterIn, filterCfg)
           /\ filterIn' = filterIn
           /\ filterCfg' = filterCfg]_vars

\* A call that drops one role and keeps another through the second hint of a list.
C6_Witness ==
    /\ filterPc = "ret"
    /\ filterIn = <<RoleHub, RoleCore>>
    /\ filterCfg.Subscriptions = <<<<"n","o","p","e">>, <<"A","B","C","D">>>>
    /\ filterCfg.Roles = <<<<"r","e","a","d","e","r">>>>
    /\ filterCfg.ManagementGroups = <<>>
    /\ filterOut = <<RoleCore>>

\* C7: a role whose scope is a management group passes the subscription check and
\* the resource-group check whatever the two hint lists hold, so whether it is kept
\* depends on the management-group, scope-contains and role-name hints alone.
C7_ManagementGroupPassthrough ==
    \A i \in 1..Len(filterIn) :
        IsManagementGroupScope(filterIn[i].Scope) =>
            /\ matchesSubscription(filterIn[i], filterCfg.Subscriptions)
            /\ matchesResourceGroup(filterIn[i], filterCfg.ResourceGroups)
            /\ (filterPc = "ret" /\ HasFilters(filterCfg)) =>
                  ((\E j \in 1..Len(filterOut) : filterOut[j] = filterIn[i])
                     <=> /\ PassesManagementGroup(filterIn[i], filterCfg)
                         /\ PassesScopeContains(filterIn[i], filterCfg)
                         /\ PassesRoleName(filterIn[i], filterCfg))

\* A group-scoped role kept although neither hint list matches anything of it.
C7_Witness ==
    /\ filterPc = "ret"
    /\ filterIn = <<RoleRoot, RoleHub>>
    /\ filterCfg.Subscriptions = <<<<"1","2","3","4">>>>
    /\ filterCfg.ResourceGroups = <<<<"n","o","p","e">>>>
    /\ filterOut = <<RoleRoot>>

\* C8: with all five hint lists empty, filterEligibleRoles returns its input: the
\* same elements in the same order.
C8_EmptyConfigIsIdentity ==
    (filterPc = "ret" /\ ~HasFilters(filterCfg)) => filterOut = filterIn

\* A call without hints on a list of two rs.
C8_Witness ==
    /\ filterPc = "ret"
    /\ ~HasFilters(filterCfg)
    /\ filterIn = <<RoleCore, RoleRoot>>
    /\ filterOut = <<RoleCore, RoleRoot>>

-----------------------------------------------------------------------------
(* Errors: the sentinel at the root of the %w chain, the contexts wrapped   *)
(* around it (outermost first), and the message text of an error that a    *)
(* collaborator returned.                                                  *)

NoError == [root |-> "nil", ctx |-> <<>>, text |-> <<>>]

NewError(msg) == [root |-> msg, ctx |-> <<>>, text |-> <<>>]

ErrUserCancelled == NewError("ErrUserCancelled")

ErrNoItems == NewError("ErrNoItems")

\* fmt.Errorf("<context>: %v", e): the chain is cut.
WrapOpaque(context, e) == [root |-> "opaque", ctx |-> <<context>> \o e.ctx, text |-> e.text]

\* fmt.Errorf("<context>: %w", e)
Wrap(context, e) == [e EXCEPT !.ctx = <<context>> \o @]

\* An error returned by the Azure client, with its message.
CollaboratorError(text) == [root |-> "collaborator", ctx |-> <<>>, text |-> text]

\* errors.Is(e, target): target is found along the Unwrap chain of e.
ErrorsIs(e, target) == e # NoError /\ e.root = target.root

-----------------------------------------------------------------------------
(* internal/cli: duration parsing and validation of the ActivateConfig.    *)

MinMinutes == 30
MaxMinutes == 480
StepMinutes == 30
DefaultDurationMinutes == 60
MinutesPerHour == 60

Digits == <<"0","1","2","3","4","5","6","7","8","9">>

IsDigit(ch) == \E i \in 1..Len(Digits) : Digits[i] = ch

DigitValue(ch) == (CHOOSE i \in 1..Len(Digits) : Digits[i] = ch) - 1

RECURSIVE DecimalValue(_)
DecimalValue(ds) ==
    IF ds = <<>> THEN 0
    ELSE 10 * DecimalValue(SubSeq(ds, 1, Len(ds) - 1)) + DigitValue(ds[Len(ds)])

RECURSIVE PowerOfTen(_)
PowerOfTen(n) == IF n = 0 THEN 1 ELSE 10 * PowerOfTen(n - 1)

\* The longest prefix of s made of digits.
LeadingDigits(s) ==
    LET n == CHOOSE k \in 0..Len(s) :
                /\ \A i \in 1..k : IsDigit(s[i])
                /\ (k < Len(s) => ~IsDigit(s[k + 1]))
    IN  SubSeq(s, 1, n)

\* fmt.Sscanf(s, "%d", &val): an optional sign and the digits that follow it; what
\* comes after the digits is left unread.  0 when no integer starts the text.
parseAsNumber(s) ==
    LET signed == Len(s) > 0 /\ s[1] \in {"+", "-"}
        body   == IF signed THEN SubSeq(s, 2, Len(s)) ELSE s
        ds     == LeadingDigits(body)
    IN  IF ds = <<>> THEN 0
        ELSE IF signed /\ s[1] = "-" THEN 0 - DecimalValue(ds)
        ELSE DecimalValue(ds)

\* fmt.Sscanf(s, "%f", &val) on a buffer of digits and points: the token is the
\* digits, then a point and the digits after it; the value is num / den.
parseFloat(s) ==
    LET whole == LeadingDigits(s)
        rest  == SubSeq(s, Len(whole) + 1, Len(s))
        frac  == IF Len(rest) > 0 /\ rest[1] = "."
                 THEN LeadingDigits(SubSeq(rest, 2, Len(rest)))
                 ELSE <<>>
    IN  [ok  |-> Len(whole) + Len(frac) > 0,
         num |-> DecimalValue(whole \o frac),
         den |-> PowerOfTen(Len(frac))]

DurationFailure == [ok |-> FALSE, minutes |-> 0]

\* The scan of parseDuration from byte i on, with totalMinutes and the buffer.
\* int(val * 60) and int(val) are taken of the exact quotient num / den.
RECURSIVE durationScan(_, _, _, _)
durationScan(s, i, totalMinutes, buffer) ==
    IF i > Len(s)
    THEN IF buffer # <<>> THEN DurationFailure
         ELSE IF totalMinutes <= 0 THEN DurationFailure
         ELSE [ok |-> TRUE, minutes |-> totalMinutes]
    ELSE LET ch == s[i]
             val == parseFloat(buffer)
         IN  IF IsDigit(ch) \/ ch = "."
             THEN durationScan(s, i + 1, totalMinutes, Append(buffer, ch))
             ELSE IF ch \in {"h", "H"}
             THEN IF buffer = <<>> \/ ~val.ok THEN DurationFailure
                  ELSE durationScan(s, i + 1,
                                    totalMinutes + ((val.num * MinutesPerHour) \div val.den),
                                    <<>>)
             ELSE IF ch \in {"m", "M"}
             THEN IF buffer = <<>> \/ ~val.ok THEN DurationFailure
                  ELSE durationScan(s, i + 1, totalMinutes + (val.num \div val.den), <<>>)
             ELSE IF ch = " "
             THEN durationScan(s, i + 1, totalMinutes, buffer)
             ELSE DurationFailure

\* A parser that takes a plain number for minutes.
parseDurationPlainMinutes(text) ==
    LET s       == TrimSpace(text)
        hasUnit == \E i \in 1..Len(s) : LowerChar(s[i]) \in {"h", "m"}
    IN  IF s = <<>> THEN [ok |-> TRUE, minutes |-> DefaultDurationMinutes]
        ELSE IF ~hasUnit
        THEN IF parseAsNumber(s) > 0
             THEN [ok |-> TRUE, minutes |-> parseAsNumber(s)]
             ELSE DurationFailure
        ELSE durationScan(s, 1, 0, <<>>)

parseDuration(text) ==
    LET s       == TrimSpace(text)
        hasUnit == \E i \in 1..Len(s) : LowerChar(s[i]) \in {"h", "m"}
    IN  IF s = <<>> THEN [ok |-> TRUE, minutes |-> DefaultDurationMinutes]
        ELSE IF ~hasUnit
        THEN IF parseAsNumber(s) > 0
             THEN [ok |-> TRUE, minutes |-> parseAsNumber(s) * MinutesPerHour]
             ELSE DurationFailure
        ELSE durationScan(s, 1, 0, <<>>)

\* A validation that forgets the range.
ValidateStepOnly(c) ==
    IF c.Minutes % StepMinutes # 0
    THEN NewError("duration must be in 30-minute increments")
    ELSE NoError

\* A validation that forgets the 30-minute step.
ValidateRangeOnly(c) ==
    IF c.Minutes < MinMinutes \/ c.Minutes > MaxMinutes
    THEN NewError("duration must be between 30 and 480 minutes")
    ELSE NoError

\* ActivateConfig.Validate
Validate(c) ==
    IF c.Minutes < MinMinutes \/ c.Minutes > MaxMinutes
    THEN NewError("duration must be between 30 and 480 minutes")
    ELSE IF c.Minutes % StepMinutes # 0
    THEN NewError("duration must be in 30-minute increments")
    ELSE NoError

\* A clamp that rounds down to the 30-minute step.
clampMinutesRoundsDown(minutes) ==
    IF minutes < MinMinutes THEN MinMinutes
    ELSE IF minutes > MaxMinutes THEN MaxMinutes
    ELSE (minutes \div StepMinutes) * StepMinutes

\* pkg/azpim clampMinutes: into the range, then to the nearest 30 minutes.
clampMinutes(minutes) ==
    IF minutes < MinMinutes THEN MinMinutes
    ELSE IF minutes > MaxMinutes THEN MaxMinutes
    ELSE ((minutes + 15) \div StepMinutes) * StepMinutes

\* ActivateConfig.EnsureDefaults
EnsureDefaults(c) ==
    IF c.Minutes = 0 THEN [c EXCEPT !.Minutes = MinMinutes] ELSE c

\* ActivateConfig.NeedsJustification
NeedsJustification(c) == TrimSpace(c.Justification) = <<>>

ZeroConfig ==
    [Justification    |-> <<>>,
     Minutes          |-> 0,
     ManagementGroups |-> <<>>,
     Subscriptions    |-> <<>>,
     ScopeContains    |-> <<>>,
     Roles            |-> <<>>,
     ResourceGroups   |-> <<>>,
     Yes              |-> FALSE]

\* parseActivate: the flags become the ActivateConfig, or an error.
parseActivate(a) ==
    LET d == parseDuration(a.t)
        c == [Justification    |-> a.j,
              Minutes          |-> d.minutes,
              ManagementGroups |-> a.mg,
              Subscriptions    |-> a.sub,
              ScopeContains    |-> a.scope,
              Roles            |-> a.role,
              ResourceGroups   |-> a.rg,
              Yes              |-> a.yes]
    IN  IF ~d.ok
        THEN [cfg |-> ZeroConfig, err |-> Wrap("invalid duration", NewError("duration format"))]
        ELSE IF Validate(c) # NoError
        THEN [cfg |-> ZeroConfig, err |-> Validate(c)]
        ELSE [cfg |-> c, err |-> NoError]

-----------------------------------------------------------------------------
(* The duration of a run on its own: parseActivate parses the text of the  *)
(* -t flag and validates the configuration, HandleActivation validates it  *)
(* again and ActivateRole puts the minutes into the request.               *)

MaxTextLen == 3

\* The texts given with -t: every short text over a few characters, and longer texts
\* of each form the parser tells apart.
DurationTexts ==
    SeqsUpTo({"0", "1", "3", "h", "m", "."}, MaxTextLen)
    \cup {<<"1","h","3","0","m">>, <<"2","h","3","0","m">>, <<"4","h","3","0","m">>, <<"8","h","3","0","m">>, <<"1","H","3","0","M">>, <<"1","h","3","0","M">>, <<"0","h","3","0","m">>, <<"0","h","0","m">>, <<"0","0","h">>,
          <<"2","H">>, <<"8","h">>, <<"9","h">>, <<"1","6","h">>, <<"9","0","m">>, <<"4","5","M">>, <<"4","8","0","m">>, <<"5","1","0","m">>, <<"2","9","m">>, <<"3","0","m">>,
          <<"1",".","5","h">>, <<"0",".","5","h">>, <<".","5","h">>, <<"2",".","5","H">>, <<"1",".","2",".","3","h">>, <<"1","h","3","0">>, <<"1",".","5">>, <<"3","x">>, <<"3","x","h">>, <<"x","3">>,
          <<"-","1","h">>, <<"-","3">>, <<"+","3">>, <<"0","0","7">>, <<"8">>, <<"9">>, <<"1","6">>, <<"a","b","c">>, <<"1","d">>, <<"1","h",",","3","0","m">>,
          <<" ","1","h"," ">>, <<"1"," ","h">>, <<"1","h"," ","3","0","m">>, <<" ">>, <<" ","3"," ">>, <<"3","0","m","1","h">>, <<"1","h","1","h">>, <<"1","m","3","0">>}

InitDuration ==
    /\ FilterOff
    /\ FlowOff
    /\ PromptOff
    /\ durText \in DurationTexts
    /\ durMinutes = 0
    /\ durErr = <<>>
    /\ clampIn = 0
    /\ durPc = "flag"

\* parseActivate lines 98-103: parseDuration(durationStr).
DurationParse ==
    /\ durPc = "flag"
    /\ LET d == parseDuration(durText)
       IN  IF d.ok
           THEN /\ durMinutes' = d.minutes
                /\ durErr' = NoError
                /\ durPc' = "parsed"
           ELSE /\ durMinutes' = 0
                /\ durErr' = Wrap("invalid duration", NewError("duration format"))
                /\ durPc' = "rejected"
    /\ UNCHANGED <<durText, clampIn>>
    /\ UNCHANGED filterVars
    /\ UNCHANGED flowVars
    /\ UNCHANGED promptVars

\* parseActivate lines 111-115: cfg.Validate(), then the command with cfg or none.
DurationValidate ==
    /\ durPc = "parsed"
    /\ LET e == Validate([ZeroConfig EXCEPT !.Minutes = durMinutes])
       IN  /\ durErr' = e
           /\ durMinutes' = IF e = NoError THEN durMinutes ELSE 0
           /\ durPc' = IF e = NoError THEN "accepted" ELSE "rejected"
    /\ UNCHANGED <<durText, clampIn>>
    /\ UNCHANGED filterVars
    /\ UNCHANGED flowVars
    /\ UNCHANGED promptVars

\* HandleActivation lines 602, 613-615 and 686, ActivateRole line 506: the minutes of
\* the accepted configuration on their way into the request.
DurationSubmit ==
    /\ durPc = "accepted"
    /\ LET c == EnsureDefaults([ZeroConfig EXCEPT !.Minutes = durMinutes])
           e == Validate(c)
       IN  IF e # NoError
           THEN /\ durErr' = e
                /\ durMinutes' = 0
                /\ durPc' = "rejected"
           ELSE /\ durErr' = NoError
                /\ durMinutes' = clampMinutes(c.Minutes)
                /\ durPc' = "submitted"
    /\ UNCHANGED <<durText, clampIn>>
    /\ UNCHANGED filterVars
    /\ UNCHANGED flowVars
    /\ UNCHANGED promptVars

NextDuration ==
    \/ DurationParse
    \/ DurationValidate
    \/ DurationSubmit

SpecDuration == InitDuration /\ [][NextDuration]_vars

-----------------------------------------------------------------------------
(* pkg/azpim clampMinutes on its own: one call with any minutes.           *)

MaxClampInput == 600

InitClamp ==
    /\ FilterOff
    /\ FlowOff
    /\ PromptOff
    /\ durText = <<>>
    /\ durMinutes = 0
    /\ durErr = <<>>
    /\ clampIn \in (0 - MaxClampInput)..MaxClampInput
    /\ durPc = "clamp"

\* ActivateRole line 506: minutes = clampMinutes(minutes).
ClampCall ==
    /\ durPc = "clamp"
    /\ durMinutes' = clampMinutes(clampIn)
    /\ durPc' = "clamped"
    /\ UNCHANGED <<durText, durErr, clampIn>>
    /\ UNCHANGED filterVars
    /\ UNCHANGED flowVars
    /\ UNCHANGED promptVars

SpecClamp == InitClamp /\ [][ClampCall]_vars

-----------------------------------------------------------------------------
(* internal/cli/prompt.go: reading a line.                                 *)

\* trimInput: TrimSpace, then TrimRight of "\r\n" (which TrimSpace already removed).
trimInput(line) == TrimSpace(line)

isQuit(value) ==
    ToLower(TrimSpace(value)) \in {<<"q">>, <<"q","u","i","t">>}

\* reader.ReadString fails: the input has ended.
EndOfInput == <<"EOF">>

ReadError(context) == Wrap(context, NewError("io.EOF"))

\* strings.Split(s, sep) for a one-character separator.
RECURSIVE Split(_, _)
Split(s, sep) ==
    IF \A i \in 1..Len(s) : s[i] # sep THEN <<s>>
    ELSE LET k == CHOOSE i \in 1..Len(s) :
                     s[i] = sep /\ \A j \in 1..(i - 1) : s[j] # sep
         IN  <<SubSeq(s, 1, k - 1)>> \o Split(SubSeq(s, k + 1, Len(s)), sep)

\* strconv.Atoi: an optional sign, then digits only.
Atoi(s) ==
    LET signed == Len(s) > 0 /\ s[1] \in {"+", "-"}
        body   == IF signed THEN SubSeq(s, 2, Len(s)) ELSE s
    IN  IF body = <<>> \/ \E i \in 1..Len(body) : ~IsDigit(body[i])
        THEN [ok |-> FALSE, val |-> 0]
        ELSE [ok |-> TRUE,
              val |-> IF signed /\ s[1] = "-" THEN 0 - DecimalValue(body)
                      ELSE DecimalValue(body)]

SeqContains(seq, x) == \E i \in 1..Len(seq) : seq[i] = x

\* A loop that keeps an index each time it is given.
RECURSIVE selectionScanKeepsDuplicates(_, _, _, _)
selectionScanKeepsDuplicates(parts, i, limit, selections) ==
    IF i > Len(parts)
    THEN IF selections = <<>>
         THEN [selections |-> <<>>, ok |-> TRUE, err |-> "no selections provided"]
         ELSE [selections |-> selections, ok |-> TRUE, err |-> ""]
    ELSE LET value == TrimSpace(parts[i])
             num   == Atoi(value)
         IN  IF value = <<>>
             THEN [selections |-> <<>>, ok |-> TRUE, err |-> "selection cannot be empty"]
             ELSE IF ~num.ok
             THEN [selections |-> <<>>, ok |-> FALSE, err |-> ""]
             ELSE IF num.val < 1 \/ num.val > limit
             THEN [selections |-> <<>>, ok |-> TRUE, err |-> "selection must be between 1 and limit"]
             ELSE selectionScanKeepsDuplicates(parts, i + 1, limit, Append(selections, num.val))

\* A loop that passes over a blank or out-of-range part and keeps the others.
RECURSIVE selectionScanSkipsInvalid(_, _, _, _)
selectionScanSkipsInvalid(parts, i, limit, selections) ==
    IF i > Len(parts)
    THEN IF selections = <<>>
         THEN [selections |-> <<>>, ok |-> TRUE, err |-> "no selections provided"]
         ELSE [selections |-> selections, ok |-> TRUE, err |-> ""]
    ELSE LET value == TrimSpace(parts[i])
             num   == Atoi(value)
         IN  IF value = <<>>
             THEN selectionScanSkipsInvalid(parts, i + 1, limit, selections)
             ELSE IF ~num.ok
             THEN [selections |-> <<>>, ok |-> FALSE, err |-> ""]
             ELSE IF num.val < 1 \/ num.val > limit \/ SeqContains(selections, num.val)
             THEN selectionScanSkipsInvalid(parts, i + 1, limit, selections)
             ELSE selectionScanSkipsInvalid(parts, i + 1, limit, Append(selections, num.val))

\* The loop of tryParseSelections over the parts, from part i on.
RECURSIVE selectionScan(_, _, _, _)
selectionScan(parts, i, limit, selections) ==
    IF i > Len(parts)
    THEN IF selections = <<>>
         THEN [selections |-> <<>>, ok |-> TRUE, err |-> "no selections provided"]
         ELSE [selections |-> selections, ok |-> TRUE, err |-> ""]
    ELSE LET value == TrimSpace(parts[i])
             num   == Atoi(value)
         IN  IF value = <<>>
             THEN [selections |-> <<>>, ok |-> TRUE, err |-> "selection cannot be empty"]
             ELSE IF ~num.ok
             THEN [selections |-> <<>>, ok |-> FALSE, err |-> ""]
             ELSE IF num.val < 1 \/ num.val > limit
             THEN [selections |-> <<>>, ok |-> TRUE, err |-> "selection must be between 1 and limit"]
             ELSE IF SeqContains(selections, num.val)
             THEN selectionScan(parts, i + 1, limit, selections)
             ELSE selectionScan(parts, i + 1, limit, Append(selections, num.val))

tryParseSelections(input, limit) ==
    IF TrimSpace(input) = <<>>
    THEN [selections |-> <<>>, ok |-> FALSE, err |-> ""]
    ELSE selectionScan(Split(input, ","), 1, limit, <<>>)

SearchLimit == 20

\* A substring search that keeps every match.
filterViewBySubstringKeepsAll(lowerKeys, needle, limit) ==
    LET hit(i)  == Contains(lowerKeys[i], needle)
        all     == [i \in 1..Len(lowerKeys) |-> i]
        matched == SelectSeq(all, hit)
    IN  IF needle = <<>> THEN [matches |-> <<>>, total |-> 0]
        ELSE [matches |-> matched, total |-> Len(matched)]

\* filterViewBySubstring over the original view 1..Len(lowerKeys): the indices of the
\* keys that contain the needle, the first `limit` of them kept.
filterViewBySubstring(lowerKeys, needle, limit) ==
    LET hit(i)  == Contains(lowerKeys[i], needle)
        all     == [i \in 1..Len(lowerKeys) |-> i]
        matched == SelectSeq(all, hit)
    IN  IF needle = <<>> THEN [matches |-> <<>>, total |-> 0]
        ELSE [matches |-> SubSeq(matched, 1, IF Len(matched) < limit THEN Len(matched) ELSE limit),
              total   |-> Len(matched)]

\* source is a subsequence of target from position i of source and j of target on.
RECURSIVE subsequenceFrom(_, _, _, _)
subsequenceFrom(source, target, i, j) ==
    IF i > Len(source) THEN TRUE
    ELSE IF j > Len(target) THEN FALSE
    ELSE IF source[i] = target[j] THEN subsequenceFrom(source, target, i + 1, j + 1)
    ELSE subsequenceFrom(source, target, i, j + 1)

\* fuzzy.MatchFold(source, target)
fuzzyMatchFold(source, target) ==
    subsequenceFrom(ToLower(source), ToLower(target), 1, 1)

\* fuzzy.RankFindFold(input, keys) followed by sort.Sort(matches) and the cut to the
\* first 20: the indices of the keys that match, in an order the ranking decides.
fuzzyRankings(input, keys) ==
    LET hits == {i \in 1..Len(keys) : fuzzyMatchFold(input, keys[i])}
        n    == Cardinality(hits)
        cut  == IF n < SearchLimit THEN n ELSE SearchLimit
    IN  {SubSeq(f, 1, cut) : f \in {g \in [1..n -> hits] :
                                      \A a, b \in 1..n : a # b => g[a] # g[b]}}

\* A full view cut to the number of entries a search shows.
FullViewCapped(n) == [i \in 1..(IF n < SearchLimit THEN n ELSE SearchLimit) |-> i]

\* Lines 137-141 and 172: a copy of the original view.
FullView(n) == [i \in 1..n |-> i]

KeysLower(keys) == [i \in 1..Len(keys) |-> ToLower(keys[i])]

\* What the loop of PromptMultiSelection prints on a turn: which message, how many
\* entries it shows and how many it says there are.
Printed(kind, shown, total) == [kind |-> kind, shown |-> shown, total |-> total]

\* The entries of the original view at the selected positions.
chosenOfOriginal(view, selections) == selections

\* Lines 183-186: the values of the entries of the view at the selected positions.
chosenOf(view, selections) == [k \in 1..Len(selections) |-> view[selections[k]]]

\* A search that shows its result also when there is none.
searchViewShowsNoMatches(keys, view, lower, ranking) ==
    LET found == filterViewBySubstring(KeysLower(keys), lower, SearchLimit)
    IN  IF found.total > 0
        THEN [view |-> found.matches,
              out  |-> Printed("substring", Len(found.matches), found.total)]
        ELSE [view |-> ranking, out |-> Printed("fuzzy", Len(ranking), Len(ranking))]

\* A search that ranks first and looks for the substring when the ranking is empty.
searchViewFuzzyFirst(keys, view, lower, ranking) ==
    LET fuzzyHit(i) == fuzzyMatchFold(lower, keys[i])
        ranked == IF ranking # <<>> THEN ranking
                  ELSE SelectSeq([i \in 1..Len(keys) |-> i], fuzzyHit)
        kept   == SubSeq(ranked, 1, IF Len(ranked) < SearchLimit THEN Len(ranked)
                                    ELSE SearchLimit)
        found  == filterViewBySubstring(KeysLower(keys), lower, SearchLimit)
    IN  IF ranked # <<>>
        THEN [view |-> kept, out |-> Printed("fuzzy", Len(kept), Len(kept))]
        ELSE IF found.total > 0
        THEN [view |-> found.matches,
              out  |-> Printed("substring", Len(found.matches), found.total)]
        ELSE [view |-> view, out |-> Printed("no matches", 0, 0)]

\* A search that looks only at the entries the current view shows.
searchViewWithinCurrent(keys, view, lower, ranking) ==
    LET shown(i) == Contains(KeysLower(keys)[i], lower)
        found    == SelectSeq(view, shown)
        kept     == SubSeq(found, 1, IF Len(found) < SearchLimit THEN Len(found)
                                     ELSE SearchLimit)
    IN  IF Len(found) > 0
        THEN [view |-> kept, out |-> Printed("substring", Len(kept), Len(found))]
        ELSE IF ranking = <<>>
        THEN [view |-> view, out |-> Printed("no matches", 0, 0)]
        ELSE [view |-> ranking, out |-> Printed("fuzzy", Len(ranking), Len(ranking))]

\* Lines 190-214: the search for a line that is no selection.  The substring search
\* runs over the original view; the ranking is used when it finds nothing.
searchView(keys, view, lower, ranking) ==
    LET found == filterViewBySubstring(KeysLower(keys), lower, SearchLimit)
    IN  IF found.total > 0
        THEN [view |-> found.matches,
              out  |-> Printed("substring", Len(found.matches), found.total)]
        ELSE IF ranking = <<>>
        THEN [view |-> view, out |-> Printed("no matches", 0, 0)]
        ELSE [view |-> ranking, out |-> Printed("fuzzy", Len(ranking), Len(ranking))]

\* One reading of the loop of PromptMultiSelection over n items with their search keys:
\* view is the current view (indices of the items, in display order), line the text
\* read, ranking the outcome of the fuzzy ranking.  The prompt returns (done) with the
\* chosen items' indices or an error, or shows a view and reads again.
PromptMultiSelectionLine(n, keys, view, line, ranking) ==
    LET input  == trimInput(line)
        lower  == ToLower(input)
        parsed == tryParseSelections(input, Len(view))
        search == searchView(keys, view, lower, ranking)
        again(v, out) == [done |-> FALSE, err |-> NoError, chosen |-> <<>>, view |-> v,
                          out |-> out]
        return(e, c)  == [done |-> TRUE, err |-> e, chosen |-> c, view |-> view,
                          out |-> Printed("", 0, 0)]
    IN  IF line = EndOfInput THEN return(ReadError("read input"), <<>>)
        ELSE IF input = <<>> THEN again(view, Printed("view", Len(view), Len(view)))
        ELSE IF lower \in {<<"q">>, <<"q","u","i","t">>} THEN return(ErrUserCancelled, <<>>)
        ELSE IF lower \in {<<"a","l","l">>, <<"*">>}
        THEN again(FullView(n), Printed("all", n, n))
        ELSE IF parsed.ok
        THEN IF parsed.err # "" THEN again(view, Printed(parsed.err, 0, 0))
             ELSE return(NoError, chosenOf(view, parsed.selections))
        ELSE again(search.view, search.out)

\* The rankings PromptMultiSelection may get for a line: fuzzy.RankFindFold is called
\* (line 197) for a line that is no command and that the substring search found in no
\* key.
RankingsFor(keys, line) ==
    LET input == trimInput(line)
        lower == ToLower(input)
    IN  IF \/ line = EndOfInput
           \/ input = <<>>
           \/ lower \in {<<"q">>, <<"q","u","i","t">>, <<"a","l","l">>, <<"*">>}
           \/ filterViewBySubstring(KeysLower(keys), lower, SearchLimit).total > 0
        THEN {<<>>}
        ELSE fuzzyRankings(input, keys)

\* One reading of the loop of PromptSelection over n items:  "q" and "quit" are
\* compared as typed.
PromptSelectionLine(n, line) ==
    LET input     == trimInput(line)
        selection == Atoi(input)
    IN  IF line = EndOfInput
        THEN [done |-> TRUE, err |-> ReadError("read input"), choice |-> 0]
        ELSE IF input \in {<<"q">>, <<"q","u","i","t">>}
        THEN [done |-> TRUE, err |-> ErrUserCancelled, choice |-> 0]
        ELSE IF ~selection.ok THEN [done |-> FALSE, err |-> NoError, choice |-> 0]
        ELSE IF selection.val < 1 \/ selection.val > n
        THEN [done |-> FALSE, err |-> NoError, choice |-> 0]
        ELSE [done |-> TRUE, err |-> NoError, choice |-> selection.val]

\* One reading of the loop of PromptYesNo.
PromptYesNoLine(line, defaultYes) ==
    LET value == ToLower(trimInput(line))
    IN  IF line = EndOfInput
        THEN [done |-> TRUE, err |-> ReadError("read response"), answer |-> FALSE]
        ELSE IF value = <<>> THEN [done |-> TRUE, err |-> NoError, answer |-> defaultYes]
        ELSE IF isQuit(value) THEN [done |-> TRUE, err |-> ErrUserCancelled, answer |-> FALSE]
        ELSE IF value \in {<<"y">>, <<"y","e","s">>} THEN [done |-> TRUE, err |-> NoError, answer |-> TRUE]
        ELSE IF value \in {<<"n">>, <<"n","o">>} THEN [done |-> TRUE, err |-> NoError, answer |-> FALSE]
        ELSE [done |-> FALSE, err |-> NoError, answer |-> FALSE]

\* A confirmation that lets a "no" through.
PromptConfirmActivationDetailedAcceptsNo(r) == r.err

\* PromptConfirmActivationDetailed once PromptYesNo(question, false) has returned r:
\* the error of the prompt, the cancellation when the answer is no, or nil.
PromptConfirmActivationDetailed(r) ==
    IF r.err # NoError THEN r.err
    ELSE IF ~r.answer THEN ErrUserCancelled
    ELSE NoError

\* One reading of the loop of PromptJustification(existing).
PromptJustificationLine(existing, line) ==
    LET value == trimInput(line)
    IN  IF line = EndOfInput
        THEN [done |-> TRUE, err |-> ReadError("read justification"), value |-> <<>>]
        ELSE IF isQuit(value) THEN [done |-> TRUE, err |-> ErrUserCancelled, value |-> <<>>]
        ELSE IF value = <<>>
        THEN IF existing # <<>> THEN [done |-> TRUE, err |-> NoError, value |-> existing]
             ELSE [done |-> FALSE, err |-> NoError, value |-> <<>>]
        ELSE [done |-> TRUE, err |-> NoError, value |-> value]

-----------------------------------------------------------------------------
(* PromptMultiSelection on its own: one call, over items that are given by   *)
(* their search keys, reading any number of lines.                         *)

MaxItems == 3

MaxLineLen == 2

\* The items of the call are the first n of these, for n up to MaxItems.
ItemPool == <<<<"A","l","p","h","a">>, <<"B","e","t","a">>, <<"D","e","l","t","a">>, <<"G","a","m","m","a">>, <<"T","h","e","t","a">>>>

\* A collection with more entries than a search shows: "Ab", "Ac", "Zulu", "Ad", ...
ManyItems ==
    LET marks == <<"b","c","z","d","e","f","g","h","i","j","k","m","n","o","p","r","s","t","u","v","w","x","y">>
    IN  [i \in 1..Len(marks) |-> IF marks[i] = "z" THEN <<"Z","u","l","u">> ELSE <<"A", marks[i]>>]

\* What the operator may type: every short line over a few characters, and longer
\* lines of each kind the loop tells apart.
PromptLines ==
    SeqsUpTo({"1", "2", ",", "a"}, MaxLineLen)
    \cup {<<" ">>, <<" "," ">>, <<" ","1">>, <<"2"," ">>, <<" ","a">>, <<","," ">>, <<" ",",">>,
          <<"3">>, <<"7">>, <<"1",",","7">>, <<"7",",","1">>, <<"1",",","2",",","3">>, <<"3",",","1">>, <<"1",","," ","2",","," ","2">>, <<"2",",","1",",","2">>, <<"3",",","3",",","1">>, <<"+","1">>, <<" ","2"," ",",","1"," ">>,
          <<"7",",","a">>, <<"a",",","7">>, <<"1",",","a">>, <<"a",",","1">>, <<"1",","," ">>, <<"1",",",",","2">>, <<"0">>, <<"-","1">>,
          <<"q">>, <<"Q">>, <<"q","u","i","t">>, <<"Q","u","i","t">>, <<"a","l","l">>, <<"A","L","L">>, <<" ","A","l","l">>, <<"*">>,
          <<"t","a">>, <<"T","A">>, <<"l","p","h">>, <<"e","t">>, <<"b","t">>, <<"l","a">>, <<"z","u">>, <<"z","z">>, EndOfInput}

InitPrompt ==
    /\ FilterOff
    /\ FlowOff
    /\ DurationOff
    /\ msItems \in {SubSeq(ItemPool, 1, n) : n \in 0..MaxItems} \cup {ManyItems}
    /\ msCurrent = <<>>
    /\ msInput = NoAnswer
    /\ msBefore = <<>>
    /\ msResult = <<>>
    /\ msOutput = <<>>
    /\ msPc = "call"

\* PromptMultiSelection lines 133-150: up to the loop.
PromptMultiSelectionCall ==
    /\ msPc = "call"
    /\ IF Len(msItems) = 0
       THEN /\ msResult' = [err |-> ErrNoItems, chosen |-> <<>>]
            /\ msPc' = "returned"
            /\ msCurrent' = msCurrent
            /\ msOutput' = msOutput
       ELSE /\ msCurrent' = FullView(Len(msItems))
            /\ msPc' = "read"
            /\ msResult' = msResult
            /\ msOutput' = Printed("view", Len(msItems), Len(msItems))
    /\ UNCHANGED <<msItems, msInput, msBefore>>
    /\ UNCHANGED filterVars
    /\ UNCHANGED flowVars
    /\ UNCHANGED durationVars

\* PromptMultiSelection lines 153-215: one turn of the loop.
PromptMultiSelectionRead ==
    /\ msPc = "read"
    /\ \E line \in PromptLines :
         \E ranking \in RankingsFor(msItems, line) :
           LET r == PromptMultiSelectionLine(Len(msItems), msItems, msCurrent, line, ranking)
           IN  /\ msInput' = line
               /\ msBefore' = msCurrent
               /\ msOutput' = r.out
               /\ IF r.done
                  THEN /\ msResult' = [err    |-> r.err,
                                       chosen |-> [k \in 1..Len(r.chosen) |-> msItems[r.chosen[k]]]]
                       /\ msPc' = "returned"
                       /\ msCurrent' = msCurrent
                  ELSE /\ msCurrent' = r.view
                       /\ msPc' = "read"
                       /\ msResult' = msResult
    /\ UNCHANGED msItems
    /\ UNCHANGED filterVars
    /\ UNCHANGED flowVars
    /\ UNCHANGED durationVars

\* PromptSelection lines 80-92, over the same items: up to the loop.
PromptSelectionCall ==
    /\ msPc = "call"
    /\ IF Len(msItems) = 0
       THEN /\ msResult' = [err |-> ErrNoItems, chosen |-> <<>>]
            /\ msPc' = "selected"
            /\ msCurrent' = msCurrent
            /\ msOutput' = msOutput
       ELSE /\ msCurrent' = FullView(Len(msItems))
            /\ msPc' = "select"
            /\ msResult' = msResult
            /\ msOutput' = Printed("view", Len(msItems), Len(msItems))
    /\ UNCHANGED <<msItems, msInput, msBefore>>
    /\ UNCHANGED filterVars
    /\ UNCHANGED flowVars
    /\ UNCHANGED durationVars

\* PromptSelection lines 94-122: one turn of the loop.
PromptSelectionRead ==
    /\ msPc = "select"
    /\ \E line \in PromptLines :
         LET r == PromptSelectionLine(Len(msItems), line)
         IN  /\ msInput' = line
             /\ msBefore' = msCurrent
             /\ IF r.done
                THEN /\ msResult' = [err    |-> r.err,
                                     chosen |-> IF r.err = NoError
                                                THEN <<msItems[r.choice]>> ELSE <<>>]
                     /\ msPc' = "selected"
                     /\ msOutput' = Printed("", 0, 0)
                ELSE /\ msResult' = msResult
                     /\ msPc' = "select"
                     /\ msOutput' = Printed("invalid", 0, 0)
    /\ UNCHANGED <<msItems, msCurrent>>
    /\ UNCHANGED filterVars
    /\ UNCHANGED flowVars
    /\ UNCHANGED durationVars

NextPrompt ==
    \/ PromptMultiSelectionCall
    \/ PromptMultiSelectionRead
    \/ PromptSelectionCall
    \/ PromptSelectionRead

SpecPrompt == InitPrompt /\ [][NextPrompt]_vars

-----------------------------------------------------------------------------
(* internal/cli: the targets of a role bound to a management group.        *)

\* Subscription.Scope()
SubscriptionScope(sub) == SubscriptionPrefix \o sub.ID

\* ResourceGroup.Scope()
ResourceGroupScope(rg) == rg.ID

\* A resource group of a subscription, as ListSubscriptionResourceGroups builds it.
ResourceGroupOf(sub, name) ==
    [SubscriptionID |-> sub.ID,
     Name           |-> name,
     ID             |-> SubscriptionPrefix \o sub.ID \o <<"/","r","e","s","o","u","r","c","e","G","r","o","u","p","s","/">> \o name]

\* ListSubscriptionResourceGroups(sub.ID) when Azure answers with the given error or names.
ListSubscriptionResourceGroups(sub, answer) ==
    [err  |-> answer.err,
     list |-> [k \in 1..Len(answer.names) |-> ResourceGroupOf(sub, answer.names[k])]]

\* A classification that knows one of the three markers only.
isAuthorizationErrorStatusCodeOnly(e) ==
    /\ e # NoError
    /\ Contains(ToLower(e.text), <<"s","t","a","t","u","s"," ","c","o","d","e"," ","4","0","3">>)

\* A classification that takes every failure for a denial.
isAuthorizationErrorAnyError(e) == e # NoError

isAuthorizationError(e) ==
    /\ e # NoError
    /\ \/ Contains(ToLower(e.text), <<"a","u","t","h","o","r","i","z","a","t","i","o","n","f","a","i","l","e","d">>)
       \/ Contains(ToLower(e.text), <<"h","t","t","p"," ","4","0","3">>)
       \/ Contains(ToLower(e.text), <<"s","t","a","t","u","s"," ","c","o","d","e"," ","4","0","3">>)

findSubscriptionsByTokens(subscriptions, tokens) ==
    LET hit(sub) == \E k \in 1..Len(tokens) :
                        /\ ToLower(tokens[k]) # <<>>
                        /\ \/ Contains(ToLower(sub.ID), ToLower(tokens[k]))
                           \/ Contains(ToLower(sub.DisplayName), ToLower(tokens[k]))
    IN  SelectSeq(subscriptions, hit)

findResourceGroupsByTokens(groups, tokens) ==
    LET hit(rg) == \E k \in 1..Len(tokens) :
                       /\ ToLower(tokens[k]) # <<>>
                       /\ Contains(ToLower(rg.Name), ToLower(tokens[k]))
    IN  SelectSeq(groups, hit)

filterResourceGroupsForSubscription(groups, subscriptionID) ==
    LET same(rg) == EqualFold(rg.SubscriptionID, subscriptionID)
    IN  SelectSeq(groups, same)

\* The loop of resourceGroupsFromHints from hint i on.
RECURSIVE syntheticGroups(_, _, _, _)
syntheticGroups(subscription, hints, i, groups) ==
    IF i > Len(hints) THEN groups
    ELSE LET name == TrimSpace(hints[i])
             seen == \E k \in 1..Len(groups) : ToLower(groups[k].Name) = ToLower(name)
         IN  IF name = <<>> \/ seen
             THEN syntheticGroups(subscription, hints, i + 1, groups)
             ELSE syntheticGroups(subscription, hints, i + 1,
                      Append(groups,
                             [SubscriptionID |-> subscription.ID,
                              Name           |-> name,
                              ID             |-> SubscriptionPrefix \o subscription.ID
                                                   \o <<"/","r","e","s","o","u","r","c","e","G","r","o","u","p","s","/">> \o name]))

resourceGroupsFromHints(subscription, hints) ==
    syntheticGroups(subscription, hints, 1, <<>>)

\* A view that takes the hints for groups whenever no listed group matches them.
resourceGroupViewFromHintsOnNoMatch(groups, subscription, c) ==
    LET matching  == findResourceGroupsByTokens(groups, c.ResourceGroups)
        synthetic == resourceGroupsFromHints(subscription, c.ResourceGroups)
    IN  IF Len(c.ResourceGroups) = 0 THEN groups
        ELSE IF Len(matching) > 0 THEN matching
        ELSE IF Len(synthetic) > 0 THEN synthetic
        ELSE groups

\* promptResourceGroups lines 901-917: the groups offered for selection.
resourceGroupView(groups, subscription, c) ==
    LET matching  == findResourceGroupsByTokens(groups, c.ResourceGroups)
        synthetic == resourceGroupsFromHints(subscription, c.ResourceGroups)
    IN  IF Len(c.ResourceGroups) = 0 THEN groups
        ELSE IF Len(matching) > 0 THEN matching
        ELSE IF Len(groups) = 0 /\ Len(synthetic) > 0 THEN synthetic
        ELSE groups

SubscriptionTarget(sub) ==
    [scope |-> SubscriptionScope(sub), display |-> sub.DisplayName]

ResourceGroupTarget(sub, rg) ==
    [scope |-> ResourceGroupScope(rg), display |-> sub.DisplayName \o <<"/">> \o rg.Name]

\* A default target that takes the display name for the scope.
DefaultTargetOfDisplay(role) == [scope |-> role.ScopeDisplay, display |-> role.ScopeDisplay]

DefaultTarget(role) == [scope |-> role.Scope, display |-> role.ScopeDisplay]

NoTarget == [scope |-> <<>>, display |-> <<>>]

errMultipleResourceGroups == NewError("errMultipleResourceGroups")

\* autoSelectResourceGroup, given what Azure answers to the listing of the groups.
autoSelectResourceGroup(subscription, hints, answer) ==
    LET listing == ListSubscriptionResourceGroups(subscription, answer)
        matches == findResourceGroupsByTokens(listing.list, hints)
        no(e, called) == [target |-> NoTarget, ok |-> FALSE, err |-> e, called |-> called]
    IN  IF Len(hints) = 0 THEN no(NoError, FALSE)
        ELSE IF listing.err # NoError
        THEN IF isAuthorizationError(listing.err)
             THEN [target |-> SubscriptionTarget(subscription), ok |-> TRUE,
                   err |-> NoError, called |-> TRUE]
             ELSE no(Wrap("list resource groups", listing.err), TRUE)
        ELSE IF Len(matches) = 0 THEN no(NoError, TRUE)
        ELSE IF Len(matches) > 1 THEN no(errMultipleResourceGroups, TRUE)
        ELSE [target |-> ResourceGroupTarget(subscription, matches[1]), ok |-> TRUE,
              err |-> NoError, called |-> TRUE]

\* A resolver that never selects on its own.
autoSelectManagementGroupScopeNever(subscriptions, c, answer) ==
    [target |-> NoTarget, ok |-> FALSE, err |-> NoError, called |-> FALSE]

\* A resolver that takes the first of several matching subscriptions.
autoSelectManagementGroupScopeFirstMatch(subscriptions, c, answer) ==
    LET matches == findSubscriptionsByTokens(subscriptions, c.Subscriptions)
    IN  IF Len(matches) > 1
        THEN [target |-> SubscriptionTarget(matches[1]), ok |-> TRUE,
              err |-> NoError, called |-> FALSE]
        ELSE [target |-> NoTarget, ok |-> FALSE, err |-> NoError, called |-> FALSE]

\* autoSelectManagementGroupScope, given what Azure would answer to the listing of
\* the groups of the one subscription that matches.
autoSelectManagementGroupScope(subscriptions, c, answer) ==
    LET matches == findSubscriptionsByTokens(subscriptions, c.Subscriptions)
        no(e, called) == [target |-> NoTarget, ok |-> FALSE, err |-> e, called |-> called]
        inner == autoSelectResourceGroup(matches[1], c.ResourceGroups, answer)
    IN  IF Len(c.Subscriptions) = 0 THEN no(NoError, FALSE)
        ELSE IF Len(matches) = 0 THEN no(NoError, FALSE)
        ELSE IF Len(matches) > 1 THEN no(NoError, FALSE)
        ELSE IF Len(c.ResourceGroups) > 0
        THEN IF inner.err # NoError
             THEN IF ErrorsIs(inner.err, errMultipleResourceGroups)
                  THEN no(NoError, inner.called)
                  ELSE no(inner.err, inner.called)
             ELSE IF inner.ok THEN inner
             ELSE no(NoError, inner.called)
        ELSE [target |-> SubscriptionTarget(matches[1]), ok |-> TRUE,
              err |-> NoError, called |-> FALSE]

\* The search keys the three multi-selections give to PromptMultiSelection.
RoleKey(role) == role.RoleName \o <<" ">> \o role.ScopeDisplay \o <<" ">> \o role.Scope

SubscriptionKey(sub) == sub.DisplayName \o <<" ">> \o sub.ID

ResourceGroupKey(rg) == rg.Name \o <<" ">> \o rg.ID

-----------------------------------------------------------------------------
(* The run of "pim activate": main.go and HandleActivation.                *)

AuthError == CollaboratorError(<<"H","T","T","P"," ","4","0","3",":"," ","A","u","t","h","o","r","i","z","a","t","i","o","n","F","a","i","l","e","d">>)

ServerError == CollaboratorError(<<"H","T","T","P"," ","5","0","0",":"," ","u","n","a","v","a","i","l","a","b","l","e">>)

ExitOK == 0
ExitFailure == 1
ExitCancelled == 130

FlowJustificationLines == {<<>>, <<"q">>, <<"o","k">>, EndOfInput}

\* The command lines: every duration and justification without hints, and every
\* combination of hints with a valid duration and a justification.
FlowArgv ==
    [t     : {<<"1","h">>, <<"4","5","m">>, <<"9","h">>},
     j     : {<<>>, <<" ">>, <<"f","i","x">>},
     yes   : BOOLEAN,
     mg    : {NoHints},
     sub   : {NoHints},
     rg    : {NoHints},
     scope : {NoHints},
     role  : {NoHints}]
    \cup
    [t     : {<<"1","h">>},
     j     : {<<"f","i","x">>},
     yes   : BOOLEAN,
     mg    : {NoHints},
     sub   : {NoHints, <<<<"a","l","p","h","a">>>>, <<<<"a">>>>},
     rg    : {NoHints, <<<<"c","o","r","e">>>>, <<<<" ">>>>, <<<<"Z","e","d">>, <<" ","z","e","d"," ">>, <<" ">>, <<"C","o","r","e">>>>},
     scope : {NoHints},
     role  : {NoHints, <<<<"o","w","n","e","r">>>>}]

\* What the collaborator may answer.
MaxRoles == 2

FlowRolePool == {RoleRoot, RoleHub, RoleCore}

NoRepeats(seq) == \A i, j \in 1..Len(seq) : i # j => seq[i] # seq[j]

RoleListings ==
    {[err |-> ServerError, list |-> <<>>]}
    \cup {[err |-> NoError, list |-> rs] :
              rs \in {q \in SeqsUpTo(FlowRolePool, MaxRoles) : NoRepeats(q)}}

SubAlpha == [ID |-> <<"a","a","a","a","-","1","1","1","1">>, DisplayName |-> <<"A","l","p","h","a">>]

SubBeta == [ID |-> <<"b","b","b","b","-","2","2","2","2">>, DisplayName |-> <<"B","e","t","a">>]

\* A child resource that the listing returned with an id and an empty name.
SubBare == [ID |-> <<"c","c","c","c","-","3","3","3","3">>, DisplayName |-> <<>>]

SubscriptionListings ==
    {[err |-> AuthError, list |-> <<>>],
     [err |-> ServerError, list |-> <<>>],
     [err |-> NoError, list |-> <<>>],
     [err |-> NoError, list |-> <<SubAlpha, SubBeta>>],
     [err |-> NoError, list |-> <<SubBare>>]}

\* What ListSubscriptionResourceGroups may answer: an error, or the names of the groups.
ResourceGroupAnswers ==
    {[err |-> AuthError, names |-> <<>>],
     [err |-> ServerError, names |-> <<>>],
     [err |-> NoError, names |-> <<>>],
     [err |-> NoError, names |-> <<<<"c","o","r","e","-","r","g">>, <<"d","a","t","a","-","r","g">>>>]}

ManagementGroupResourceGroupListings ==
    {[err |-> ServerError, list |-> <<>>],
     [err |-> NoError, list |-> <<ResourceGroupOf(SubAlpha, <<"c","o","r","e","-","r","g">>), ResourceGroupOf(SubBeta, <<"d","a","t","a","-","r","g">>)>>]}

ActivateRoleOutcomes == {NoError, ServerError}

\* What the operator may type.
MultiSelectionLines ==
    {<<>>, <<"q">>, <<"a","l","l">>, <<"1">>, <<"2",",","1">>, <<"1",","," ","1">>, <<"7">>, <<"1",",","a">>, <<"b","e","t","a">>, <<"o","w","n","r">>, EndOfInput}

ScopeOptionLines == {<<"1">>, <<"2">>, <<"3">>, <<"q">>, <<"Q">>, <<"0">>, <<"x">>, EndOfInput}

ConfirmLines == {<<>>, <<"y">>, <<"Y","e","s">>, <<"n">>, <<"n","o">>, <<"q">>, <<"m","a","y","b","e">>, EndOfInput}

InitFlow ==
    /\ FilterOff
    /\ PromptOff
    /\ DurationOff
    /\ pc = "args"
    /\ argv \in FlowArgv
    /\ cfg = ZeroConfig
    /\ err = NoError
    /\ exit = 0
    /\ calls = <<>>
    /\ answers = <<>>
    /\ prompts = <<>>
    /\ roles = <<>>
    /\ selected = <<>>
    /\ roleIdx = 0
    /\ activations = <<>>
    /\ resolved = <<>>
    /\ attempts = <<>>
    /\ confirmed = NoAnswer
    /\ items = <<>>
    /\ current = <<>>
    /\ subs = <<>>
    /\ selectedSubs = <<>>
    /\ subIdx = 0
    /\ targets = <<>>
    /\ rgCaller = "none"

Answer(e, n) == [err |-> e, count |-> n]

\* run() returns e.
Return(e) ==
    /\ pc' = "returned"
    /\ err' = e

\* run: cli.ParseArgs(os.Args[1:]) for "activate" and its flags.
RunParseArgs ==
    /\ pc = "args"
    /\ LET r == parseActivate(argv)
       IN  IF r.err # NoError
           THEN Return(r.err) /\ cfg' = cfg
           ELSE pc' = "client" /\ cfg' = r.cfg /\ err' = err
    /\ UNCHANGED <<argv, exit, calls, answers, prompts, roles, selected, roleIdx, activations,
                   resolved, attempts, confirmed, items, current, subs, selectedSubs,
                   subIdx, targets, rgCaller>>
    /\ UNCHANGED filterVars
    /\ UNCHANGED promptVars
    /\ UNCHANGED durationVars

\* run: azpim.NewClient and client.GetCurrentUser, each of which may fail.
RunNewClient ==
    /\ pc = "client"
    /\ \E outcome \in {"ok", "no client", "no user"} :
        /\ calls' = IF outcome = "no client" THEN Append(calls, "NewClient")
                    ELSE calls \o <<"NewClient", "GetCurrentUser">>
        /\ answers' = IF outcome = "no client" THEN Append(answers, Answer(ServerError, 0))
                      ELSE IF outcome = "no user"
                      THEN answers \o <<Answer(NoError, 0), Answer(ServerError, 0)>>
                      ELSE answers \o <<Answer(NoError, 0), Answer(NoError, 0)>>
        /\ IF outcome = "ok" THEN pc' = "start" /\ err' = err
           ELSE IF outcome = "no client"
           THEN Return(Wrap("initialize client", ServerError))
           ELSE Return(Wrap("get current user", ServerError))
    /\ UNCHANGED <<argv, cfg, exit, prompts, roles, selected, roleIdx, activations,
                   resolved, attempts, confirmed, items, current, subs, selectedSubs,
                   subIdx, targets, rgCaller>>
    /\ UNCHANGED filterVars
    /\ UNCHANGED promptVars
    /\ UNCHANGED durationVars

\* The variables of the run that HandleActivation works on, as one record.
Flow ==
    [pc |-> pc, cfg |-> cfg, err |-> err, calls |-> calls, answers |-> answers,
     prompts |-> prompts,
     roles |-> roles, selected |-> selected, roleIdx |-> roleIdx,
     activations |-> activations, resolved |-> resolved, attempts |-> attempts,
     confirmed |-> confirmed, items |-> items, current |-> current, subs |-> subs,
     selectedSubs |-> selectedSubs, subIdx |-> subIdx, targets |-> targets,
     rgCaller |-> rgCaller]

Becomes(s) ==
    /\ pc' = s.pc
    /\ cfg' = s.cfg
    /\ err' = s.err
    /\ calls' = s.calls
    /\ answers' = s.answers
    /\ prompts' = s.prompts
    /\ roles' = s.roles
    /\ selected' = s.selected
    /\ roleIdx' = s.roleIdx
    /\ activations' = s.activations
    /\ resolved' = s.resolved
    /\ attempts' = s.attempts
    /\ confirmed' = s.confirmed
    /\ items' = s.items
    /\ current' = s.current
    /\ subs' = s.subs
    /\ selectedSubs' = s.selectedSubs
    /\ subIdx' = s.subIdx
    /\ targets' = s.targets
    /\ rgCaller' = s.rgCaller
    /\ UNCHANGED <<argv, exit>>
    /\ UNCHANGED filterVars
    /\ UNCHANGED promptVars
    /\ UNCHANGED durationVars

\* HandleActivation returns e.
Returned(s, e) == [s EXCEPT !.pc = "returned", !.err = e]

\* A request goes to the Azure client, which answers with the error e (nil when
\* NoError) and, for a listing, n items.
Called(s, name, e, n) ==
    [s EXCEPT !.calls = Append(@, name), !.answers = Append(@, Answer(e, n))]

\* A prompt of the given kind opens over the items; role is the selected role whose
\* targets are being determined, 0 outside determineActivationTargets.
Prompted(s, kind, role, its, pcName) ==
    [s EXCEPT !.prompts = Append(@, [kind |-> kind, role |-> role, cancelled |-> FALSE]),
              !.items = its,
              !.current = FullView(Len(its)),
              !.pc = pcName]

\* The prompt that is open returned the error e: the log of prompts notes whether
\* that was the operator's cancellation.
PromptFailed(s, e) ==
    IF e = ErrUserCancelled
    THEN [s EXCEPT !.prompts[Len(s.prompts)].cancelled = TRUE]
    ELSE s

\* HandleActivation lines 670-682: after the loop over the selected roles.
AfterResolution(s) ==
    IF ~s.cfg.Yes
    THEN Prompted(s, "confirmation", 0, <<>>, "confirm")
    ELSE [s EXCEPT !.pc = "submit"]

\* A loop that goes on to the confirmation and the requests after each role.
NextRoleSubmitsAtOnce(s) == AfterResolution(s)

\* HandleActivation lines 660-668: the loop over the selected roles moves on.
NextRole(s) ==
    IF s.roleIdx < Len(s.selected)
    THEN [s EXCEPT !.roleIdx = @ + 1, !.pc = "resolve"]
    ELSE AfterResolution(s)

\* determineActivationTargets returned ts for the role at hand.
FinishRole(s, ts) ==
    NextRole([s EXCEPT
        !.activations  = @ \o [k \in 1..Len(ts) |->
                                  [role |-> s.selected[s.roleIdx], target |-> ts[k]]],
        !.resolved     = Append(@, [role |-> s.roleIdx, subs |-> s.subs, targets |-> ts]),
        !.items        = <<>>,
        !.current      = <<>>,
        !.subs         = <<>>,
        !.selectedSubs = <<>>,
        !.subIdx       = 0,
        !.targets      = <<>>,
        !.rgCaller     = "none"])

\* A loop over the selected roles that skips a role whose resolution failed.
FailRoleMovesOn(s, e) == NextRole(s)

\* determineActivationTargets returned the error e for the role at hand.
FailRole(s, e) == Returned(s, Wrap("determine target scope", e))

\* promptManagementGroupTargets lines 808-818: the scope options are shown.
promptManagementGroupTargets(s) ==
    Prompted(s, "scope option", s.roleIdx, <<"management-group", "subscription", "resource-group">>,
             "scopeOption")

\* determineActivationTargets lines 731-740, autoSelectManagementGroupScope first.
AutoSelectOrPrompt(s, listing) ==
    LET a  == autoSelectManagementGroupScope(s.subs, s.cfg, listing)
        s1 == IF a.called
              THEN Called(s, "ListSubscriptionResourceGroups", listing.err, Len(listing.names))
              ELSE s
    IN  IF a.err # NoError THEN FailRole(s1, a.err)
        ELSE IF a.ok THEN FinishRole(s1, <<a.target>>)
        ELSE promptManagementGroupTargets(s1)

\* promptResourceGroupsForHints lines 847-854: the subscriptions to go through.
StartResourceGroupLoop(s, caller) ==
    LET hinted == findSubscriptionsByTokens(s.subs, s.cfg.Subscriptions)
        s1 == [s EXCEPT !.selectedSubs = IF Len(s.cfg.Subscriptions) > 0 /\ Len(hinted) > 0
                                         THEN hinted ELSE s.subs,
                        !.subIdx = 1,
                        !.targets = <<>>,
                        !.rgCaller = caller,
                        !.pc = "listRG"]
    IN  IF Len(s1.selectedSubs) > 0 THEN s1
        ELSE IF caller = "hints"
        THEN AutoSelectOrPrompt(s1, [err |-> NoError, names |-> <<>>])
        ELSE FinishRole(s1, <<>>)

\* promptResourceGroupsForHints lines 855-865: promptResourceGroups returned
\* subTargets for the subscription at hand.
AdvanceResourceGroupLoop(s, subTargets, listing) ==
    LET s1 == [s EXCEPT !.targets = @ \o subTargets, !.items = <<>>, !.current = <<>>]
    IN  IF s.subIdx < Len(s.selectedSubs)
        THEN [s1 EXCEPT !.subIdx = @ + 1, !.pc = "listRG"]
        ELSE IF s.rgCaller = "hints" /\ Len(s1.targets) = 0
        THEN AutoSelectOrPrompt(s1, listing)
        ELSE FinishRole(s1, s1.targets)

\* determineActivationTargets lines 717-740: the group has the subscriptions s.subs.
WithSubscriptions(s, listing) ==
    IF HasTargetHints(s.cfg)
    THEN IF Len(s.cfg.Subscriptions) > 0 /\ Len(s.cfg.ResourceGroups) > 0
         THEN StartResourceGroupLoop(s, "hints")
         ELSE AutoSelectOrPrompt(s, listing)
    ELSE promptManagementGroupTargets(s)

\* An auto-accept that does not ask whether filters are active.
AutoAcceptsAnyLoneRole(rs, c) == Len(rs) = 1

\* HandleActivation lines 633-651: a lone role left by active filters is taken as it is.
AutoAccepts(rs, c) == Len(rs) = 1 /\ HasFilters(c)

\* HandleActivation lines 613-617: Validate, then on to GetEligibleRoles.
ValidateThenFetch(s) ==
    IF Validate(s.cfg) # NoError THEN Returned(s, Validate(s.cfg))
    ELSE [s EXCEPT !.pc = "fetch"]

\* HandleActivation lines 602-617, up to the first read or collaborator call.
HandleActivationStart ==
    /\ pc = "start"
    /\ LET s1 == [Flow EXCEPT !.cfg = EnsureDefaults(cfg)]
       IN  IF NeedsJustification(s1.cfg)
           THEN Becomes(Prompted(s1, "justification", 0, <<>>, "justify"))
           ELSE Becomes(ValidateThenFetch(s1))

\* HandleActivation lines 604-617: PromptJustification(cfg.Justification) reads a line.
ReadJustification ==
    /\ pc = "justify"
    /\ \E line \in FlowJustificationLines :
        LET r == PromptJustificationLine(cfg.Justification, line)
        IN  IF ~r.done THEN Becomes(Flow)
            ELSE IF r.err # NoError
            THEN Becomes(Returned(PromptFailed(Flow, r.err), r.err))
            ELSE Becomes(ValidateThenFetch([Flow EXCEPT !.cfg.Justification = r.value]))

\* HandleActivation lines 619-656: GetEligibleRoles, the filters, and the selection
\* of roles up to its first read.
FetchRoles ==
    /\ pc = "fetch"
    /\ \E answer \in RoleListings :
        LET s1       == Called(Flow, "GetEligibleRoles", answer.err, Len(answer.list))
            filtered == filterEligibleRoles(answer.list, cfg)
            s2       == [s1 EXCEPT !.roles = filtered]
        IN  IF answer.err # NoError
            THEN Becomes(Returned(s1, Wrap("get eligible roles", answer.err)))
            ELSE IF Len(filtered) = 0
            THEN Becomes(Returned(s2, NewError(IF HasFilters(cfg)
                                               THEN "no eligible PIM roles matched the provided filters"
                                               ELSE "no eligible PIM roles found")))
            ELSE IF AutoAccepts(filtered, cfg)
            THEN Becomes([s2 EXCEPT !.selected = filtered, !.roleIdx = 1, !.pc = "resolve"])
            ELSE Becomes(Prompted(s2, "roles", 0, filtered, "pickRoles"))

\* The values of the items the operator chose.
Chosen(r) == [k \in 1..Len(r.chosen) |-> items[r.chosen[k]]]

\* HandleActivation lines 638-650: PromptMultiSelection over the roles reads a line.
PickRoles ==
    /\ pc = "pickRoles"
    /\ \E line \in MultiSelectionLines :
        LET keys == [i \in 1..Len(items) |-> RoleKey(items[i])]
        IN  \E ranking \in RankingsFor(keys, line) :
              LET r == PromptMultiSelectionLine(Len(items), keys, current, line, ranking)
              IN  IF ~r.done THEN Becomes([Flow EXCEPT !.current = r.view])
                  ELSE IF r.err # NoError
                  THEN Becomes(Returned(PromptFailed(Flow, r.err), Wrap("selection", r.err)))
                  ELSE Becomes([Flow EXCEPT !.selected = Chosen(r), !.roleIdx = 1,
                                            !.items = <<>>, !.current = <<>>,
                                            !.pc = "resolve"])

\* determineActivationTargets without the test for a group that has no subscription.
determineActivationTargetsSkipsEmptyTest(s, answer, listing) ==
    LET role == s.selected[s.roleIdx]
        mgID == ManagementGroupIDFromScope(role.Scope)
        s1   == Called(s, "ListManagementGroupSubscriptions", answer.err, Len(answer.list))
        s2   == [s1 EXCEPT !.subs = answer.list]
    IN  IF ~IsManagementGroupScope(role.Scope) \/ mgID = <<>>
        THEN FinishRole(s, <<DefaultTarget(role)>>)
        ELSE IF answer.err # NoError
        THEN IF isAuthorizationError(answer.err)
             THEN FinishRole(s1, <<DefaultTarget(role)>>)
             ELSE FailRole(s1, Wrap("list subscriptions", answer.err))
        ELSE WithSubscriptions(s2, listing)

\* determineActivationTargets lines 697-740 for the role at hand, up to its first read:
\* answer is what ListManagementGroupSubscriptions answers, listing what
\* ListSubscriptionResourceGroups would answer to autoSelectResourceGroup.
determineActivationTargets(s, answer, listing) ==
    LET role == s.selected[s.roleIdx]
        mgID == ManagementGroupIDFromScope(role.Scope)
        s1   == Called(s, "ListManagementGroupSubscriptions", answer.err, Len(answer.list))
        s2   == [s1 EXCEPT !.subs = answer.list]
    IN  IF ~IsManagementGroupScope(role.Scope) \/ mgID = <<>>
        THEN FinishRole(s, <<DefaultTarget(role)>>)
        ELSE IF answer.err # NoError
        THEN IF isAuthorizationError(answer.err)
             THEN FinishRole(s1, <<DefaultTarget(role)>>)
             ELSE FailRole(s1, Wrap("list subscriptions", answer.err))
        ELSE IF Len(answer.list) = 0
        THEN FinishRole(s1, <<DefaultTarget(role)>>)
        ELSE WithSubscriptions(s2, listing)

\* HandleActivation line 661: determineActivationTargets is called for the next role.
ResolveRole ==
    /\ pc = "resolve"
    /\ \E answer \in SubscriptionListings, listing \in ResourceGroupAnswers :
          Becomes(determineActivationTargets(Flow, answer, listing))

\* promptManagementGroupTargets lines 814-840: PromptSelection reads a line.
ChooseScopeOption ==
    /\ pc = "scopeOption"
    /\ \E line \in ScopeOptionLines :
        LET r    == PromptSelectionLine(Len(items), line)
            role == selected[roleIdx]
        IN  IF ~r.done THEN Becomes(Flow)
            ELSE IF r.err # NoError
            THEN Becomes(FailRole(PromptFailed(Flow, r.err), Wrap("scope option", r.err)))
            ELSE IF items[r.choice] = "management-group"
            THEN Becomes(FinishRole(Flow, <<DefaultTarget(role)>>))
            ELSE IF items[r.choice] = "subscription"
            THEN IF Len(subs) = 0 THEN Becomes(FailRole(Flow, ErrNoItems))
                 ELSE Becomes(Prompted(Flow, "subscriptions", roleIdx, subs, "pickSubs"))
            ELSE IF Len(cfg.ResourceGroups) = 0
            THEN Becomes(FinishRole(Flow, <<>>))
            ELSE Becomes(StartResourceGroupLoop(Flow, "option"))

\* promptSubscriptions: PromptMultiSelection over the subscriptions reads a line.
PickSubscriptions ==
    /\ pc = "pickSubs"
    /\ \E line \in MultiSelectionLines :
        LET keys == [i \in 1..Len(items) |-> SubscriptionKey(items[i])]
        IN  \E ranking \in RankingsFor(keys, line) :
              LET r == PromptMultiSelectionLine(Len(items), keys, current, line, ranking)
              IN  IF ~r.done THEN Becomes([Flow EXCEPT !.current = r.view])
                  ELSE IF r.err # NoError
                  THEN Becomes(FailRole(PromptFailed(Flow, r.err), r.err))
                  ELSE Becomes(FinishRole(Flow,
                           [k \in 1..Len(r.chosen) |-> SubscriptionTarget(Chosen(r)[k])]))

\* promptResourceGroups lines 884-927 for the subscription at hand, up to its read.
ListResourceGroups ==
    /\ pc = "listRG"
    /\ LET sub  == selectedSubs[subIdx]
           mgID == ManagementGroupIDFromScope(selected[roleIdx].Scope)
       IN  \E reply \in ResourceGroupAnswers,
              fallback \in ManagementGroupResourceGroupListings,
              listing \in ResourceGroupAnswers :
             LET answer == ListSubscriptionResourceGroups(sub, reply)
                 s1     == Called(Flow, "ListSubscriptionResourceGroups", answer.err, Len(answer.list))
                 viaMG  == answer.err = NoError /\ Len(answer.list) = 0 /\ mgID # <<>>
                 s2     == IF viaMG
                           THEN Called(s1, "ListManagementGroupResourceGroups",
                                       fallback.err, Len(fallback.list))
                           ELSE s1
                 groups == IF viaMG /\ fallback.err = NoError
                           THEN filterResourceGroupsForSubscription(fallback.list, sub.ID)
                           ELSE answer.list
                 view   == resourceGroupView(groups, sub, cfg)
             IN  IF answer.err # NoError
                 THEN IF isAuthorizationError(answer.err)
                      THEN Becomes(AdvanceResourceGroupLoop(s1, <<SubscriptionTarget(sub)>>, listing))
                      ELSE Becomes(FailRole(s1, answer.err))
                 ELSE IF Len(view) = 0
                 THEN Becomes(AdvanceResourceGroupLoop(s2, <<SubscriptionTarget(sub)>>, listing))
                 ELSE Becomes(Prompted(s2, "resource groups", roleIdx, view, "pickRG"))

\* promptResourceGroups lines 931-941: PromptMultiSelection over the groups reads a line.
PickResourceGroups ==
    /\ pc = "pickRG"
    /\ \E line \in MultiSelectionLines, listing \in ResourceGroupAnswers :
        LET keys == [i \in 1..Len(items) |-> ResourceGroupKey(items[i])]
            sub  == selectedSubs[subIdx]
        IN  \E ranking \in RankingsFor(keys, line) :
              LET r == PromptMultiSelectionLine(Len(items), keys, current, line, ranking)
              IN  IF ~r.done THEN Becomes([Flow EXCEPT !.current = r.view])
                  ELSE IF r.err # NoError
                  THEN Becomes(FailRole(PromptFailed(Flow, r.err), r.err))
                  ELSE Becomes(AdvanceResourceGroupLoop(Flow,
                           [k \in 1..Len(r.chosen) |-> ResourceGroupTarget(sub, Chosen(r)[k])],
                           listing))

\* HandleActivation lines 670-682: PromptConfirmActivationDetailed reads a line.
Confirm ==
    /\ pc = "confirm"
    /\ \E line \in ConfirmLines :
        LET r == PromptYesNoLine(line, FALSE)
            e == PromptConfirmActivationDetailed(r)
            s1 == [Flow EXCEPT !.confirmed = line]
        IN  IF ~r.done THEN Becomes(Flow)
            ELSE IF e # NoError THEN Becomes(Returned(PromptFailed(s1, e), e))
            ELSE Becomes([s1 EXCEPT !.pc = "submit"])

\* A loop that takes the activations from the end.
NextActivationFromEnd(acts, n) == acts[Len(acts) - n]

\* HandleActivation line 685: the activation the loop takes after n requests.
NextActivation(acts, n) == acts[n + 1]

\* A loop that goes on after a failed request.
AfterActivateRoleContinues(s, outcome) == s

\* HandleActivation lines 687-689: ActivateRole answered with outcome.
AfterActivateRole(s, outcome) ==
    IF outcome # NoError THEN Returned(s, Wrap("activate role", outcome)) ELSE s

\* HandleActivation lines 685-693: one turn of the loop over the activations.
Submit ==
    /\ pc = "submit"
    /\ LET n == Len(attempts)
       IN  IF n = Len(activations) THEN Becomes(Returned(Flow, NoError))
           ELSE \E outcome \in ActivateRoleOutcomes :
                  LET act == NextActivation(activations, n)
                      s1  == [Called(Flow, "ActivateRole", outcome, 0) EXCEPT
                                 !.attempts = Append(@, [role    |-> act.role,
                                                         scope   |-> act.target.scope,
                                                         minutes |-> cfg.Minutes,
                                                         ok      |-> outcome = NoError])]
                  IN  Becomes(AfterActivateRole(s1, outcome))

\* main lines 82-89: the exit status for what run() returned.
ExitStatus(e) ==
    IF e = NoError THEN ExitOK
    ELSE IF ErrorsIs(e, ErrUserCancelled) THEN ExitCancelled
    ELSE ExitFailure

\* main: the error of run() becomes the exit status.
MainExit ==
    /\ pc = "returned"
    /\ pc' = "exited"
    /\ exit' = ExitStatus(err)
    /\ UNCHANGED <<argv, cfg, err, calls, answers, prompts, roles, selected, roleIdx, activations,
                   resolved, attempts, confirmed, items, current, subs, selectedSubs,
                   subIdx, targets, rgCaller>>
    /\ UNCHANGED filterVars
    /\ UNCHANGED promptVars
    /\ UNCHANGED durationVars

Next ==
    \/ RunParseArgs
    \/ RunNewClient
    \/ HandleActivationStart
    \/ ReadJustification
    \/ FetchRoles
    \/ PickRoles
    \/ ResolveRole
    \/ ChooseScopeOption
    \/ PickSubscriptions
    \/ ListResourceGroups
    \/ PickResourceGroups
    \/ Confirm
    \/ Submit
    \/ MainExit

Spec == InitFlow /\ [][Next]_vars

-----------------------------------------------------------------------------
(* Claims about the run of "pim activate".                                 *)

PromptsOfKind(kind) == {i \in 1..Len(prompts) : prompts[i].kind = kind}

PromptsForRole(i) == {k \in 1..Len(prompts) : prompts[k].role = i}

Finished == pc \in {"returned", "exited"}

IsLine(line) == line # NoAnswer /\ line # EndOfInput

Affirmative(line) == IsLine(line) /\ ToLower(TrimSpace(line)) \in {<<"y">>, <<"y","e","s">>}

Declining(line) ==
    IsLine(line) /\ ToLower(TrimSpace(line)) \in {<<>>, <<"n">>, <<"n","o">>, <<"q">>, <<"q","u","i","t">>}

\* C1: without the skip-confirmation flag (Yes), no activation request reaches the
\* collaborator unless the operator gave an affirmative answer to the one confirmation
\* of the batch; an empty answer (default No), "n"/"no" or a quit ends the run with
\* the cancellation signal and no request submitted.
C1_ConfirmationGuardsSubmission ==
    ~cfg.Yes =>
        /\ (attempts # <<>> \/ SeqContains(calls, "ActivateRole")) =>
               /\ Affirmative(confirmed)
               /\ Cardinality(PromptsOfKind("confirmation")) = 1
        /\ Declining(confirmed) =>
               /\ attempts = <<>>
               /\ ~SeqContains(calls, "ActivateRole")
               /\ Finished
               /\ ErrorsIs(err, ErrUserCancelled)
               /\ pc = "exited" => exit = ExitCancelled

C1_Witness ==
    /\ pc = "exited"
    /\ ~cfg.Yes
    /\ confirmed = <<>>
    /\ Len(activations) = 2
    /\ attempts = <<>>
    /\ exit = ExitCancelled

\* The (role, target) pairs of the roles resolved so far: role by role in the order
\* of selection, and for each role its targets in the order the resolver returned them.
RECURSIVE ResolutionOrder(_)
ResolutionOrder(n) ==
    IF n = 0 THEN <<>>
    ELSE ResolutionOrder(n - 1)
         \o [k \in 1..Len(resolved[n].targets) |->
                [role |-> selected[n], target |-> resolved[n].targets[k]]]

\* C2: the requests go out one per (role, target) pair in resolution order: the
\* k-th request is for the k-th pair, pairs of an earlier-selected role before those
\* of a later one, the targets of a role in the order the resolver returned them;
\* none is skipped or repeated before the first failure.
C2_SubmissionInResolutionOrder ==
    /\ \A i \in 1..Len(resolved) : resolved[i].role = i
    /\ activations = ResolutionOrder(Len(resolved))
    /\ Len(attempts) <= Len(activations)
    /\ attempts # <<>> => Len(resolved) = Len(selected)
    /\ \A k \in 1..Len(attempts) :
          /\ attempts[k].role = ResolutionOrder(Len(resolved))[k].role
          /\ attempts[k].scope = ResolutionOrder(Len(resolved))[k].target.scope
          /\ k < Len(attempts) => attempts[k].ok
    /\ Cardinality({i \in 1..Len(calls) : calls[i] = "ActivateRole"}) = Len(attempts)
    /\ (Finished /\ err = NoError) => Len(attempts) = Len(activations)

C2_Witness ==
    /\ pc = "exited"
    /\ exit = ExitOK
    /\ selected = <<RoleRoot, RoleHub>>
    /\ Len(attempts) = 3
    /\ attempts[1].role = RoleRoot /\ attempts[1].scope = SubscriptionScope(SubBeta)
    /\ attempts[2].role = RoleRoot /\ attempts[2].scope = SubscriptionScope(SubAlpha)
    /\ attempts[3].role = RoleHub /\ attempts[3].scope = RoleHub.Scope

SomeAttemptFailed == \E k \in 1..Len(attempts) : ~attempts[k].ok

\* C3: the first request that fails ends the run with an error: no request follows
\* it (no later pair, no retry), no other call to the collaborator is made (the
\* requests before it are not rolled back), and the log of requests only ever grows.
C3_FirstFailureAborts ==
    [][/\ SubSeq(attempts', 1, Len(attempts)) = attempts
       /\ SomeAttemptFailed => (attempts' = attempts /\ calls' = calls)
       /\ (~SomeAttemptFailed /\ SomeAttemptFailed') =>
              /\ pc' = "returned"
              /\ err' # NoError
              /\ ~ErrorsIs(err', ErrUserCancelled)
              /\ ~attempts'[Len(attempts')].ok
       /\ (SomeAttemptFailed /\ pc' = "exited") => exit' = ExitFailure]_vars

C3_Witness ==
    /\ pc = "exited"
    /\ exit = ExitFailure
    /\ Len(activations) = 3
    /\ Len(attempts) = 2
    /\ attempts[1].ok
    /\ ~attempts[2].ok

DurationIsInvalid(a) ==
    LET d == parseDuration(a.t)
    IN  \/ ~d.ok
        \/ d.minutes < MinMinutes
        \/ d.minutes > MaxMinutes
        \/ d.minutes % StepMinutes # 0

\* C4 as stated: a configuration with a duration outside [30,480] minutes or not a
\* multiple of 30, or with an empty justification, makes the run fail before any call
\* to the collaborator.
C4_InvalidConfigFailsBeforeAnyCall ==
    (DurationIsInvalid(argv) \/ argv.j = <<>>) =>
        /\ calls = <<>>
        /\ Finished => err # NoError

\* C4: a duration outside [30,480] minutes or not a multiple of 30 makes the run fail
\* when the arguments are parsed, before any call to the collaborator and before any
\* prompt.  A missing justification is no validation failure: the client is created
\* and the current user fetched first, and then the justification is asked for.
C4_InvalidDurationFailsBeforeAnyCall ==
    /\ DurationIsInvalid(argv) =>
          /\ calls = <<>>
          /\ prompts = <<>>
          /\ pc \in {"args", "returned", "exited"}
          /\ pc # "args" => (err # NoError /\ ~ErrorsIs(err, ErrUserCancelled))
          /\ pc = "exited" => exit = ExitFailure
    /\ \A i \in PromptsOfKind("justification") :
          /\ i = 1
          /\ Len(calls) >= 2
          /\ calls[1] = "NewClient"
          /\ calls[2] = "GetCurrentUser"
    /\ (TrimSpace(argv.j) = <<>> /\ (pc \in {"justify", "fetch"} \/ SeqContains(calls, "GetEligibleRoles"))) =>
          PromptsOfKind("justification") = {1}

C4_Witness ==
    /\ pc = "exited"
    /\ argv.t = <<"4","5","m">>
    /\ argv.j = <<"f","i","x">>
    /\ exit = ExitFailure
    /\ calls = <<>>

CancellationRaised == \E i \in 1..Len(prompts) : prompts[i].cancelled

C9_LoneFilteredRoleAutoAccepted ==
    roles # <<>> =>
        IF HasFilters(cfg) /\ Len(roles) = 1
        THEN /\ PromptsOfKind("roles") = {}
             /\ selected = roles
        ELSE /\ Cardinality(PromptsOfKind("roles")) = 1
             /\ pc = "pickRoles" => (items = roles /\ selected = <<>>)
             /\ \A i \in 1..Len(selected) : SeqContains(roles, selected[i])

C9_Witness ==
    /\ pc = "exited"
    /\ exit = ExitOK
    /\ HasFilters(cfg)
    /\ roles = <<RoleRoot>>
    /\ prompts = <<>>
    /\ Len(attempts) = 1

HintMatchesSubscription(hint, sub) ==
    \/ Contains(ToLower(sub.ID), ToLower(hint))
    \/ Contains(ToLower(sub.DisplayName), ToLower(hint))

HintedSubscriptions(children, hints) ==
    {i \in 1..Len(children) :
        \E h \in 1..Len(hints) : HintMatchesSubscription(hints[h], children[i])}

\* C10: for a role bound to a management group that has child subscriptions, with
\* subscription hints that match exactly one child and no resource-group hints, the
\* resolver returns exactly one target, the scope of that subscription, and opens
\* no prompt.
C10_SingleHintedSubscriptionIsTheTarget ==
    \A i \in 1..Len(selected) :
        LET role     == selected[i]
            children == IF i <= Len(resolved) THEN resolved[i].subs ELSE subs
            hinted   == HintedSubscriptions(children, cfg.Subscriptions)
        IN  (/\ (i <= Len(resolved) \/ (i = roleIdx /\ pc # "resolve"))
             /\ IsManagementGroupScope(role.Scope)
             /\ children # <<>>
             /\ Cardinality(hinted) = 1
             /\ cfg.ResourceGroups = <<>>) =>
                /\ i <= Len(resolved)
                /\ PromptsForRole(i) = {}
                /\ Len(resolved[i].targets) = 1
                /\ \A k \in hinted :
                      resolved[i].targets[1].scope = SubscriptionPrefix \o children[k].ID

C10_Witness ==
    /\ Len(resolved) = 1
    /\ selected[1] = RoleRoot
    /\ resolved[1].subs = <<SubAlpha, SubBeta>>
    /\ cfg.Subscriptions = <<<<"a","l","p","h","a">>>>
    /\ cfg.ResourceGroups = <<>>
    /\ resolved[1].targets = <<[scope |-> <<"/","s","u","b","s","c","r","i","p","t","i","o","n","s","/","a","a","a","a","-","1","1","1","1">>, display |-> <<"A","l","p","h","a">>]>>
    /\ PromptsForRole(1) = {}

-----------------------------------------------------------------------------
(* Claims about determineActivationTargets.                                *)

\* The prompts of the given kind opened while the targets of role i were determined.
PromptsOfKindForRole(kind, i) == {k \in PromptsForRole(i) : prompts[k].kind = kind}

\* The targets of role i that are the whole scope of one of the given subscriptions.
WholeSubscriptionTargets(i, children, which) ==
    {k \in 1..Len(resolved[i].targets) :
        \E h \in which :
            /\ resolved[i].targets[k].scope = SubscriptionPrefix \o children[h].ID
            /\ resolved[i].targets[k].display = children[h].DisplayName}

\* The targets of role i that are a resource group of one of the given subscriptions.
GroupTargets(i, children, which) ==
    {k \in 1..Len(resolved[i].targets) :
        \E h \in which :
            HasPrefix(resolved[i].targets[k].scope,
                      SubscriptionPrefix \o children[h].ID \o <<"/","r","e","s","o","u","r","c","e","G","r","o","u","p","s","/">>)}

\* C11 as stated: when the subscription hints match more than one child subscription,
\* every target the resolver returns was chosen by the operator at a prompt, so at
\* least one prompt was opened for the role.
C11_AmbiguousHintsAlwaysPrompt ==
    \A i \in 1..Len(resolved) :
        (/\ IsManagementGroupScope(selected[i].Scope)
         /\ Cardinality(HintedSubscriptions(resolved[i].subs, cfg.Subscriptions)) > 1
         /\ resolved[i].targets # <<>>) =>
            PromptsForRole(i) # {}

\* C11: when the subscription hints match more than one child subscription, the
\* resolver never chooses among them.  Without resource-group hints it opens the
\* scope-option prompt.  With resource-group hints it goes through every matched
\* subscription: each one either gets a resource-group prompt, and its targets are
\* groups chosen there, or contributes its whole scope as one target without a
\* prompt (its listing was denied or offered no group).
C11_AmbiguousHintsNeverGuessed ==
    \A i \in 1..Len(resolved) :
        LET children == resolved[i].subs
            hinted   == HintedSubscriptions(children, cfg.Subscriptions)
            whole    == WholeSubscriptionTargets(i, children, hinted)
            groups   == GroupTargets(i, children, hinted)
        IN  (/\ IsManagementGroupScope(selected[i].Scope)
             /\ Cardinality(hinted) > 1) =>
                IF cfg.ResourceGroups = <<>>
                THEN PromptsOfKindForRole("scope option", i) # {}
                ELSE /\ PromptsOfKindForRole("scope option", i) = {}
                     /\ \A k \in 1..Len(resolved[i].targets) : k \in whole \cup groups
                     /\ groups # {} => PromptsOfKindForRole("resource groups", i) # {}
                     /\ Cardinality(PromptsOfKindForRole("resource groups", i))
                            + Cardinality(whole) = Cardinality(hinted)

C11_Witness ==
    /\ Len(resolved) = 1
    /\ selected[1] = RoleRoot
    /\ cfg.Subscriptions = <<<<"a">>>>
    /\ cfg.ResourceGroups = <<>>
    /\ resolved[1].subs = <<SubAlpha, SubBeta>>
    /\ resolved[1].targets = <<[scope |-> <<"/","s","u","b","s","c","r","i","p","t","i","o","n","s","/","b","b","b","b","-","2","2","2","2">>, display |-> <<"B","e","t","a">>]>>
    /\ PromptsOfKindForRole("scope option", 1) # {}
    /\ PromptsOfKindForRole("subscriptions", 1) # {}

\* C12 as stated: with subscription hints and resource-group hints both given, for a
\* role bound to a management group that has child subscriptions, the targets of the
\* combined drill are returned without any prompt.
C12_CombinedHintsResolveWithoutPrompt ==
    \A i \in 1..Len(resolved) :
        (/\ IsManagementGroupScope(selected[i].Scope)
         /\ resolved[i].subs # <<>>
         /\ cfg.Subscriptions # <<>>
         /\ cfg.ResourceGroups # <<>>
         /\ resolved[i].targets # <<>>) =>
            PromptsForRole(i) = {}

\* The step in which ListManagementGroupSubscriptions is called for the role at hand.
ListsSubscriptions ==
    /\ pc = "resolve"
    /\ Len(calls') > Len(calls)
    /\ calls'[Len(calls) + 1] = "ListManagementGroupSubscriptions"

\* The step returns the whole scope of the role at hand as its one target: no error,
\* no prompt for the role, and the run goes on.
ReturnsWholeScope ==
    LET whole == [scope |-> selected[roleIdx].Scope, display |-> selected[roleIdx].ScopeDisplay]
    IN  /\ resolved' = Append(resolved, [role |-> roleIdx, subs |-> <<>>, targets |-> <<whole>>])
        /\ activations' = Append(activations, [role |-> selected[roleIdx], target |-> whole])
        /\ {k \in 1..Len(prompts') : prompts'[k].role = roleIdx} = {}
        /\ err' = NoError
        /\ pc' \in {"resolve", "confirm", "submit"}

\* C13: when the listing of the child subscriptions of a management-group role is
\* denied (an authorization error), the resolver returns exactly one target, the
\* role's own scope and display, with no error and no prompt, and the run goes on to
\* the next role, the confirmation or the submission.
C13_DeniedListingDegradesToGroup ==
    [][(ListsSubscriptions /\ answers'[Len(calls) + 1].err = AuthError) =>
           /\ ReturnsWholeScope
           /\ Len(calls') = Len(calls) + 1]_vars

C13_Witness ==
    /\ pc = "exited"
    /\ exit = ExitOK
    /\ selected = <<RoleRoot>>
    /\ calls[Len(calls) - 1] = "ListManagementGroupSubscriptions"
    /\ answers[Len(calls) - 1].err = AuthError
    /\ Len(attempts) = 1
    /\ attempts[1].scope = RoleRoot.Scope

\* C14: when the management group of a role has no child subscription, the resolver
\* returns exactly one target, the group itself, whatever hints are configured, makes
\* no further call and opens no prompt.
C14_EmptyGroupIsTheTarget ==
    [][(/\ ListsSubscriptions
        /\ answers'[Len(calls) + 1].err = NoError
        /\ answers'[Len(calls) + 1].count = 0) =>
           /\ ReturnsWholeScope
           /\ Len(calls') = Len(calls) + 1]_vars

C14_Witness ==
    /\ pc = "exited"
    /\ exit = ExitOK
    /\ selected = <<RoleRoot>>
    /\ cfg.Subscriptions # <<>>
    /\ cfg.ResourceGroups # <<>>
    /\ calls[Len(calls) - 1] = "ListManagementGroupSubscriptions"
    /\ answers[Len(calls) - 1] = [err |-> NoError, count |-> 0]
    /\ prompts = <<>>
    /\ Len(attempts) = 1
    /\ attempts[1].scope = RoleRoot.Scope

\* C15: for a role whose scope is not a management-group scope the resolver returns
\* exactly one target, the role's own scope and display, without any call to the
\* collaborator and without any prompt, whatever hints are configured.
C15_OwnScopeIsTheTarget ==
    [][(pc = "resolve" /\ ~IsManagementGroupScope(selected[roleIdx].Scope)) =>
           /\ ReturnsWholeScope
           /\ calls' = calls]_vars

C15_Witness ==
    /\ pc = "exited"
    /\ exit = ExitOK
    /\ selected = <<RoleCore>>
    /\ cfg.Subscriptions # <<>>
    /\ cfg.ResourceGroups # <<>>
    /\ calls = <<"NewClient", "GetCurrentUser", "GetEligibleRoles", "ActivateRole">>
    /\ attempts[1].scope = <<"/","s","u","b","s","c","r","i","p","t","i","o","n","s","/","a","b","c","d","/","r","e","s","o","u","r","c","e","G","r","o","u","p","s","/","c","o","r","e","-","r","g">>
    /\ activations[1].target.display = <<"c","o","r","e","-","r","g">>

\* C16: when the listing of the child subscriptions fails with an error that is not
\* an authorization error, the resolver returns an error and no target for the role:
\* nothing is queued for it, no prompt opens, and it does not degrade to the group.
C16_OtherListingFailureIsAnError ==
    [][(ListsSubscriptions /\ answers'[Len(calls) + 1].err = ServerError) =>
           /\ pc' = "returned"
           /\ err' # NoError
           /\ ErrorsIs(err', ServerError)
           /\ ~ErrorsIs(err', ErrUserCancelled)
           /\ resolved' = resolved
           /\ activations' = activations
           /\ prompts' = prompts
           /\ Len(calls') = Len(calls) + 1]_vars

C16_Witness ==
    /\ pc = "exited"
    /\ exit = ExitFailure
    /\ calls # <<>>
    /\ calls[Len(calls)] = "ListManagementGroupSubscriptions"
    /\ answers[Len(calls)].err = ServerError
    /\ err.ctx = <<"determine target scope", "list subscriptions">>
    /\ resolved = <<>>

\* A listing asked for while the targets of a role were determined failed with an
\* error that is not an authorization error.
ResolutionFailed ==
    \E k \in 1..Len(calls) :
        /\ calls[k] \in {"ListManagementGroupSubscriptions", "ListSubscriptionResourceGroups"}
        /\ answers[k].err = ServerError

C18_ScopeOptionDrivesTheSelections ==
    /\ (pc \in {"listRG", "pickRG"} /\ rgCaller = "option") =>
           PromptsOfKindForRole("subscriptions", roleIdx) # {}
    /\ \A i \in 1..Len(resolved) :
           PromptsOfKindForRole("scope option", i) # {} =>
               /\ resolved[i].targets # <<>>
               /\ \A k \in 1..Len(resolved[i].targets) :
                      \/ resolved[i].targets[k].scope = selected[i].Scope
                      \/ k \in WholeSubscriptionTargets(i, resolved[i].subs, 1..Len(resolved[i].subs))
                      \/ k \in GroupTargets(i, resolved[i].subs, 1..Len(resolved[i].subs))

-----------------------------------------------------------------------------
(* Claims about PromptMultiSelection and tryParseSelections.               *)

\* The comma-separated tokens of an input, each trimmed.
Tokens(input) ==
    [k \in 1..Len(Split(input, ",")) |-> TrimSpace(Split(input, ",")[k])]

\* Every token is an integer within [1, limit].
AllTokensAreIndices(input, limit) ==
    \A k \in 1..Len(Tokens(input)) :
        /\ Atoi(Tokens(input)[k]).ok
        /\ Atoi(Tokens(input)[k]).val \in 1..limit

TokenValues(input) == [k \in 1..Len(Tokens(input)) |-> Atoi(Tokens(input)[k]).val]

\* The values of a sequence, each once, in the order of their first occurrence.
FirstOccurrences(vals) ==
    LET first == {i \in 1..Len(vals) : \A j \in 1..(i - 1) : vals[j] # vals[i]}
    IN  [k \in 1..Cardinality(first) |->
            vals[CHOOSE i \in first : Cardinality({j \in first : j < i}) = k - 1]]

\* The loop has read a line.
LineRead == msPc \in {"read", "returned"} /\ IsLine(msInput)

\* C19: for an input whose comma-separated tokens, trimmed, are all integers within
\* [1, limit], tryParseSelections succeeds with each distinct index once, in the order
\* of first occurrence, and PromptMultiSelection returns the items at those positions
\* of the view that was current when the line was read, in that order.
C19_ValidSelectionReturnedInFirstSeenOrder ==
    (LineRead /\ AllTokensAreIndices(trimInput(msInput), Len(msBefore))) =>
        LET parsed == tryParseSelections(trimInput(msInput), Len(msBefore))
            want   == FirstOccurrences(TokenValues(trimInput(msInput)))
        IN  /\ parsed.ok
            /\ parsed.err = ""
            /\ parsed.selections = want
            /\ msPc = "returned"
            /\ msResult.err = NoError
            /\ msResult.chosen = [k \in 1..Len(want) |-> msItems[msBefore[want[k]]]]

C19_Witness ==
    /\ msPc = "returned"
    /\ msBefore = <<2, 3>>
    /\ msInput = <<"2",",","1",",","2">>
    /\ msResult = [err |-> NoError, chosen |-> <<<<"D","e","l","t","a">>, <<"B","e","t","a">>>>]

\* Some token that is not blank does not parse as an integer.
SomeTokenIsNoInteger(input) ==
    \E k \in 1..Len(Tokens(input)) :
        Tokens(input)[k] # <<>> /\ ~Atoi(Tokens(input)[k]).ok

\* C20 as stated: an input with a non-blank token that is no integer is never taken
\* for a selection and never rejected as invalid, whatever its other tokens are and
\* wherever they stand: tryParseSelections reports "not a selection" without an error
\* and the loop goes on to the search.
C20_NonIntegerInputAlwaysSearched ==
    (/\ LineRead
     /\ SomeTokenIsNoInteger(trimInput(msInput))
     /\ ToLower(trimInput(msInput)) \notin {<<"q">>, <<"q","u","i","t">>, <<"a","l","l">>, <<"*">>}) =>
        LET parsed == tryParseSelections(trimInput(msInput), Len(msBefore))
            found  == filterViewBySubstring(KeysLower(msItems), ToLower(trimInput(msInput)),
                                            SearchLimit)
        IN  /\ ~parsed.ok
            /\ parsed.err = ""
            /\ msPc = "read"
            /\ found.total > 0 => msCurrent = found.matches

\* Every token is blank or an integer, and one of them is blank or lies outside
\* [1, limit].
InvalidSelection(input, limit) ==
    /\ \A k \in 1..Len(Tokens(input)) :
          Tokens(input)[k] = <<>> \/ Atoi(Tokens(input)[k]).ok
    /\ \E k \in 1..Len(Tokens(input)) :
          Tokens(input)[k] = <<>> \/ Atoi(Tokens(input)[k]).val \notin 1..limit

\* C21: a line of integers and blank tokens only, one of which is blank or lies
\* outside [1, len(current)], is rejected as a whole: tryParseSelections reports a
\* selection with an error, PromptMultiSelection prints the error and returns nothing
\* (not even the items of the valid indices), the view stays as it was when the line
\* was read, and the loop reads again.
C21_InvalidSelectionRejectedWhole ==
    (/\ LineRead
     /\ trimInput(msInput) # <<>>
     /\ InvalidSelection(trimInput(msInput), Len(msBefore))) =>
        LET parsed == tryParseSelections(trimInput(msInput), Len(msBefore))
        IN  /\ parsed.ok
            /\ parsed.err # ""
            /\ parsed.selections = <<>>
            /\ msPc = "read"
            /\ msResult = <<>>
            /\ msCurrent = msBefore
            /\ msOutput.kind = parsed.err

C21_Witness ==
    /\ msPc = "read"
    /\ msInput = <<"1",",","7">>
    /\ msBefore = <<2, 3>>
    /\ msCurrent = <<2, 3>>
    /\ msOutput.kind = "selection must be between 1 and limit"

\* C22: whatever searches and resets came before, when PromptMultiSelection returns a
\* selection, the item returned for display index k is the item of the original
\* collection that the current view shows at position k at that moment (the view
\* holds positions of the original collection only), not the item at position k of
\* the original collection.
C22_SelectionResolvesThroughCurrentView ==
    /\ \A i \in 1..Len(msCurrent) : msCurrent[i] \in 1..Len(msItems)
    /\ (msPc = "returned" /\ msResult.err = NoError) =>
          LET picked == FirstOccurrences(TokenValues(trimInput(msInput)))
          IN  /\ \A k \in 1..Len(picked) : picked[k] \in 1..Len(msCurrent)
              /\ msResult.chosen =
                    [k \in 1..Len(picked) |-> msItems[msCurrent[picked[k]]]]

C22_Witness ==
    /\ msPc = "returned"
    /\ msItems = <<<<"A","l","p","h","a">>, <<"B","e","t","a">>, <<"D","e","l","t","a">>>>
    /\ msCurrent = <<3, 1>>
    /\ msInput = <<"1">>
    /\ msResult = [err |-> NoError, chosen |-> <<<<"D","e","l","t","a">>>>]

\* The line read is taken for a search: it is not blank, not a command, and
\* tryParseSelections does not take it for a selection.
SearchLine ==
    /\ LineRead
    /\ trimInput(msInput) # <<>>
    /\ ToLower(trimInput(msInput)) \notin {<<"q">>, <<"q","u","i","t">>, <<"a","l","l">>, <<"*">>}
    /\ ~tryParseSelections(trimInput(msInput), Len(msBefore)).ok

\* The positions of the original collection whose lowercase key contains the
\* lowercased line, in the original order.
OriginalMatches ==
    LET hasIt(i) == Contains(ToLower(msItems[i]), ToLower(trimInput(msInput)))
    IN  SelectSeq([i \in 1..Len(msItems) |-> i], hasIt)

\* C23: searches are not compounded.  After a search line that at least one key of
\* the original collection contains, the current view is the first 20 items of the
\* original collection, in the original order, whose lowercase key contains the
\* lowercased line, whatever the view was before; the total printed counts all those
\* items and the number shown counts the view.
C23_SubstringSearchRunsOverOriginal ==
    (SearchLine /\ Len(OriginalMatches) > 0) =>
        /\ msPc = "read"
        /\ msCurrent = SubSeq(OriginalMatches, 1,
                              IF Len(OriginalMatches) < SearchLimit
                              THEN Len(OriginalMatches) ELSE SearchLimit)
        /\ msOutput = Printed("substring", Len(msCurrent), Len(OriginalMatches))

C23_Witness ==
    /\ msPc = "read"
    /\ msItems = ManyItems
    /\ msBefore = <<3>>
    /\ msInput = <<"a">>
    /\ Len(msCurrent) = SearchLimit
    /\ msCurrent[3] = 4
    /\ msOutput = Printed("substring", SearchLimit, SearchLimit + 2)

\* C24: the fuzzy ranking is used only for a search line that no key of the original
\* collection contains.  When at least one key contains the line, the view shown is
\* the substring result: every item in it contains the line, also when further items
\* match the line as a subsequence only.
C24_FuzzyOnlyAfterEmptySubstringSearch ==
    SearchLine =>
        /\ msOutput.kind = "fuzzy" => Len(OriginalMatches) = 0
        /\ Len(OriginalMatches) > 0 =>
              /\ msOutput.kind = "substring"
              /\ \A i \in 1..Len(msCurrent) :
                    Contains(ToLower(msItems[msCurrent[i]]), ToLower(trimInput(msInput)))

C24_Witness ==
    /\ msPc = "read"
    /\ msItems = <<<<"A","l","p","h","a">>, <<"B","e","t","a">>, <<"D","e","l","t","a">>>>
    /\ msInput = <<"e","t">>
    /\ fuzzyMatchFold(<<"e","t">>, msItems[3])
    /\ msBefore = <<3, 1>>
    /\ msCurrent = <<2>>
    /\ msOutput = Printed("substring", 1, 1)

\* C25: the line "all" or "*", in any letter case, makes the current view the whole
\* original collection in the original order, whatever the view was when the line was
\* read, and the loop reads again without returning.
C25_AllResetsToOriginal ==
    (LineRead /\ ToLower(trimInput(msInput)) \in {<<"a","l","l">>, <<"*">>}) =>
        /\ msPc = "read"
        /\ msResult = <<>>
        /\ Len(msCurrent) = Len(msItems)
        /\ \A i \in 1..Len(msItems) : msCurrent[i] = i
        /\ msOutput = Printed("all", Len(msItems), Len(msItems))

C25_Witness ==
    /\ msPc = "read"
    /\ msItems = ManyItems
    /\ msInput = <<"A","L","L">>
    /\ msBefore = <<3>>
    /\ Len(msCurrent) = Len(ManyItems)

\* No key of the original collection matches the line as a subsequence.
NoFuzzyMatch ==
    \A i \in 1..Len(msItems) : ~fuzzyMatchFold(trimInput(msInput), msItems[i])

\* C26: a blank line, and a search line that no key contains and no key matches as a
\* subsequence, leave the current view exactly as it was when the line was read, and
\* the loop reads again; no turn of the loop changes the original collection.
C26_BlankAndFruitlessLinesKeepTheView ==
    /\ [](LineRead /\ trimInput(msInput) = <<>> =>
            /\ msPc = "read"
            /\ msResult = <<>>
            /\ msCurrent = msBefore
            /\ msOutput = Printed("view", Len(msBefore), Len(msBefore)))
    /\ [](SearchLine /\ Len(OriginalMatches) = 0 /\ NoFuzzyMatch =>
            /\ msPc = "read"
            /\ msResult = <<>>
            /\ msCurrent = msBefore
            /\ msOutput = Printed("no matches", 0, 0))
    /\ [][msItems' = msItems]_vars

C26_Witness ==
    /\ msPc = "read"
    /\ msItems = <<<<"A","l","p","h","a">>, <<"B","e","t","a">>, <<"D","e","l","t","a">>>>
    /\ msInput = <<"z","z">>
    /\ msBefore = <<2, 3>>
    /\ msCurrent = <<2, 3>>
    /\ msOutput = Printed("no matches", 0, 0)

\* C27 as stated: at a selection prompt (PromptMultiSelection, and PromptSelection,
\* which asks for the scope option), the line "q" or "quit" in any letter case ends
\* the prompt with the cancellation.
C27_QuitInAnyCaseCancels ==
    (/\ msPc \in {"read", "returned", "select", "selected"}
     /\ IsLine(msInput)
     /\ ToLower(trimInput(msInput)) \in {<<"q">>, <<"q","u","i","t">>}) =>
        /\ msPc \in {"returned", "selected"}
        /\ msResult = [err |-> ErrUserCancelled, chosen |-> <<>>]

-----------------------------------------------------------------------------
(* Claims about parseDuration and the validation of the duration.          *)

\* A non-empty run of decimal digits.
AllDigits(s) == s # <<>> /\ \A i \in 1..Len(s) : s[i] \in {Digits[d] : d \in 1..Len(Digits)}

\* The minutes that the forms n, <a>h, <b>m and <a>h<b>m stand for, for a text of one of
\* these forms (unit letters in either case); no value for any other text.
MinutesOfForm(text) ==
    LET n       == Len(text)
        head(k) == SubSeq(text, 1, k - 1)
        hours   == {k \in 2..n : text[k] \in {"h", "H"} /\ AllDigits(head(k))}
        between(k) == SubSeq(text, k + 1, n - 1)
    IN  (IF AllDigits(text) THEN {60 * DecimalValue(text)} ELSE {})
        \cup (IF n \in hours THEN {60 * DecimalValue(head(n))} ELSE {})
        \cup (IF n > 1 /\ text[n] \in {"m", "M"} /\ AllDigits(head(n))
              THEN {DecimalValue(head(n))} ELSE {})
        \cup {60 * DecimalValue(head(k)) + DecimalValue(between(k)) :
                 k \in {h \in hours : /\ h < n - 1
                                       /\ text[n] \in {"m", "M"}
                                       /\ AllDigits(between(h))}}

\* parseActivate has returned the error of parseDuration.
ParseFailed ==
    /\ ~parseDuration(durText).ok
    /\ durPc = "rejected"
    /\ durErr = Wrap("invalid duration", NewError("duration format"))

\* parseDuration has returned v minutes.
ParsedAs(v) ==
    /\ parseDuration(durText) = [ok |-> TRUE, minutes |-> v]
    /\ durPc = "parsed" => durMinutes = v /\ durErr = NoError
    /\ durErr # Wrap("invalid duration", NewError("duration format"))

\* C28: parseDuration gives 60 for the empty text; 60*n for a plain positive integer n
\* without a unit letter; 60*a+b for "<a>h<b>m", 60*a for "<a>h" and b for "<b>m" when
\* the result is positive, the unit letters in either case; and it fails for "h" and
\* for "-1h".
C28_DurationForms ==
    durPc # "flag" =>
        /\ durText = <<>> => ParsedAs(60)
        /\ \A v \in MinutesOfForm(durText) : v > 0 => ParsedAs(v)
        /\ durText \in {<<"h">>, <<"-","1","h">>} => ParseFailed

C28_Witness ==
    /\ durPc = "parsed"
    /\ durText = <<"1","H","3","0","M">>
    /\ MinutesOfForm(durText) = {90}
    /\ durMinutes = 90

\* The characters of a duration: digits, the point, the space and the unit letters.
DurationCharacters ==
    {Digits[d] : d \in 1..Len(Digits)} \cup {".", " ", "h", "H", "m", "M"}

\* A plain integer: digits, with or without a sign before them.
PlainInteger(s) ==
    \/ AllDigits(s)
    \/ Len(s) > 1 /\ s[1] \in {"+", "-"} /\ AllDigits(SubSeq(s, 2, Len(s)))

\* C29 as stated: parseDuration fails for every non-empty text that is no plain integer
\* and contains a character other than digits, '.', space, h/H, m/M, or whose last
\* number is not followed by a unit ("1h30", "1.5", "3x"); and it fails when the
\* total is not positive.
C29_MalformedDurationsFail ==
    durPc # "flag" =>
        LET s == TrimSpace(durText)
        IN  /\ (/\ s # <<>>
                /\ ~PlainInteger(s)
                /\ \E i \in 1..Len(s) : s[i] \notin DurationCharacters) => ParseFailed
            /\ (/\ s # <<>>
                /\ ~PlainInteger(s)
                /\ s[Len(s)] \notin {"h", "H", "m", "M"}) => ParseFailed
            /\ MinutesOfForm(s) = {0} => ParseFailed

\* C30: the duration given with -t is accepted by the validation exactly when it is
\* within 30..480 minutes and a multiple of 30, and then it reaches the request as it
\* was parsed; any other duration is rejected with an error and no minutes are
\* carried on: it is not rounded or clamped into an accepted one.
C30_ExplicitDurationAcceptedOrRejected ==
    (durPc \in {"accepted", "rejected", "submitted"} /\ parseDuration(durText).ok) =>
        LET m     == parseDuration(durText).minutes
            valid == m \in 30..480 /\ m % 30 = 0
        IN  /\ durPc \in {"accepted", "submitted"} <=> valid
            /\ valid => durMinutes = m /\ durErr = NoError
            /\ ~valid =>
                  /\ durPc = "rejected"
                  /\ durMinutes = 0
                  /\ durErr \in {NewError("duration must be between 30 and 480 minutes"),
                                 NewError("duration must be in 30-minute increments")}

C30_Witness ==
    /\ durPc = "rejected"
    /\ durText = <<"4","5","M">>
    /\ parseDuration(durText) = [ok |-> TRUE, minutes |-> 45]
    /\ durMinutes = 0
    /\ durErr = NewError("duration must be in 30-minute increments")

-----------------------------------------------------------------------------
(* Claims about clampMinutes.                                              *)

\* C31: for every integer m, clampMinutes(m) is a multiple of 30 within [30, 480]; it
\* is 30 for m below 30 and 480 for m above 480; for m in between it is the multiple
\* of 30 nearest to m, the upper one when m lies halfway; so a value that passes the
\* validation (a multiple of 30 within [30, 480]) is returned unchanged.
C31_ClampGivesNearestStepInRange ==
    durPc = "clamped" =>
        /\ durMinutes \in 30..480
        /\ durMinutes % 30 = 0
        /\ clampIn < 30 => durMinutes = 30
        /\ clampIn > 480 => durMinutes = 480
        /\ clampIn \in 30..480 => (clampIn - durMinutes) \in -15..14
        /\ Validate([ZeroConfig EXCEPT !.Minutes = clampIn]) = NoError =>
              durMinutes = clampIn

C31_Witness ==
    /\ durPc = "clamped"
    /\ clampIn = 45
    /\ durMinutes = 60

-----------------------------------------------------------------------------
(* Claims about the targets, the justification and the batch.              *)

\* C32 as stated: every target that determineActivationTargets returned, on every
\* path, has a non-empty scope and a non-empty display label.
C32_TargetsCarryScopeAndDisplay ==
    \A i \in 1..Len(resolved) :
        \A k \in 1..Len(resolved[i].targets) :
            /\ resolved[i].targets[k].scope # <<>>
            /\ resolved[i].targets[k].display # <<>>

\* C33 as stated: no activation request goes out with an empty or blank
\* justification; a blank configured justification is asked for again until a
\* value that is not blank, or a cancellation, is given.
C33_NoRequestWithBlankJustification ==
    attempts # <<>> => TrimSpace(cfg.Justification) # <<>>

\* The listing that promptResourceGroups worked with for the subscription was empty:
\* ListSubscriptionResourceGroups listed nothing, and the listing of the management
\* group, when it was asked, failed or had no group of the subscription.
ListedNoGroups(sub) ==
    LET n == Len(calls)
    IN  IF calls[n] = "ListSubscriptionResourceGroups"
        THEN answers[n].err = NoError /\ answers[n].count = 0
        ELSE /\ calls[n] = "ListManagementGroupResourceGroups"
             /\ \/ answers[n].err # NoError
                \/ \A f \in ManagementGroupResourceGroupListings :
                      f.err = NoError =>
                          filterResourceGroupsForSubscription(f.list, sub.ID) = <<>>

\* The group is one that a listing of the collaborator holds.
ListedGroup(rg) ==
    \/ \E a \in ResourceGroupAnswers, sub \in {SubAlpha, SubBeta, SubBare} :
          \E k \in 1..Len(a.names) : rg = ResourceGroupOf(sub, a.names[k])
    \/ \E f \in ManagementGroupResourceGroupListings :
          \E k \in 1..Len(f.list) : rg = f.list[k]

\* The positions of the hints that are not blank and differ, letter case aside, from
\* every hint before them.
DistinctHintPositions(hints) ==
    {i \in 1..Len(hints) :
        /\ TrimSpace(hints[i]) # <<>>
        /\ \A j \in 1..(i - 1) :
              ToLower(TrimSpace(hints[j])) # ToLower(TrimSpace(hints[i]))}

\* C34: the groups offered for a subscription are made up from the hints only when
\* the listing (the listing of the management group included) was empty and there are
\* resource group hints; they are then one group per distinct hint that is not blank,
\* in the order of the hints, the first spelling kept, named as the trimmed hint and
\* placed under the subscription.
C34_GroupsFromHintsOnlyForEmptyListing ==
    pc = "pickRG" =>
        LET sub   == selectedSubs[subIdx]
            hints == cfg.ResourceGroups
            kept  == DistinctHintPositions(hints)
        IN  IF ListedNoGroups(sub) /\ Len(hints) > 0
            THEN /\ Len(items) = Cardinality(kept)
                 /\ \A k \in 1..Len(items) :
                       \E i \in kept :
                           /\ Cardinality({j \in kept : j < i}) = k - 1
                           /\ items[k].Name = TrimSpace(hints[i])
                           /\ items[k].SubscriptionID = sub.ID
                           /\ items[k].ID = SubscriptionPrefix \o sub.ID
                                               \o <<"/","r","e","s","o","u","r","c","e","G","r","o","u","p","s","/">> \o TrimSpace(hints[i])
            ELSE \A k \in 1..Len(items) : ListedGroup(items[k])

C34_Witness ==
    /\ pc = "pickRG"
    /\ cfg.ResourceGroups = <<<<"Z","e","d">>, <<" ","z","e","d"," ">>, <<" ">>, <<"C","o","r","e">>>>
    /\ calls[Len(calls)] = "ListManagementGroupResourceGroups"
    /\ items = <<ResourceGroupOf(selectedSubs[subIdx], <<"Z","e","d">>),
                 ResourceGroupOf(selectedSubs[subIdx], <<"C","o","r","e">>)>>

\* The calls that list resource groups while the targets of a role are determined.
ResourceGroupListingCalls ==
    {"ListSubscriptionResourceGroups", "ListManagementGroupResourceGroups"}

\* C36 as stated: an authorization error from the listing of the resource groups of a
\* subscription never ends the run (the subscription becomes the target and the run
\* goes on); a failure of any other class from a listing of resource groups ends the
\* resolution with that error, so it is the last call made and no target, and no
\* request, comes after it.
C36_OnlyDeniedListingsDegrade ==
    \A k \in 1..Len(calls) :
        /\ (calls[k] = "ListSubscriptionResourceGroups" /\ answers[k].err = AuthError) =>
               (err = NoError \/ err.text # AuthError.text)
        /\ (calls[k] \in ResourceGroupListingCalls /\ answers[k].err = ServerError) =>
               /\ k = Len(calls)
               /\ Finished
               /\ ErrorsIs(err, ServerError)
               /\ attempts = <<>>

\* The collaborator calls made while the targets of a role are determined.
ResolutionCalls == {"ListManagementGroupSubscriptions"} \cup ResourceGroupListingCalls

\* C37: the targets of every selected role are determined before the first
\* activation request goes out: every listing call comes before every ActivateRole
\* call, a request is made only with all selected roles resolved, and a run in which
\* the resolution of a role failed, or was cancelled at one of its prompts, ends
\* with an error and no request, also for the roles resolved and queued before.
C37_ResolutionCompletesBeforeSubmission ==
    /\ \A i \in 1..Len(calls) : \A j \in 1..Len(calls) :
           (calls[i] = "ActivateRole" /\ calls[j] \in ResolutionCalls) => j < i
    /\ SeqContains(calls, "ActivateRole") =>
           (selected # <<>> /\ Len(resolved) = Len(selected))
    /\ (Finished /\ Len(resolved) < Len(selected)) =>
           /\ err # NoError
           /\ attempts = <<>>
           /\ ~SeqContains(calls, "ActivateRole")
    /\ \A k \in 1..Len(prompts) :
           (prompts[k].role > 0 /\ prompts[k].cancelled) =>
               /\ k = Len(prompts)
               /\ Finished
               /\ ErrorsIs(err, ErrUserCancelled)
               /\ attempts = <<>>
               /\ ~SeqContains(calls, "ActivateRole")

C37_Witness ==
    /\ pc = "exited"
    /\ exit = ExitCancelled
    /\ Len(selected) = 2
    /\ Len(resolved) = 1
    /\ activations # <<>>
    /\ prompts[Len(prompts)].role = 2
    /\ prompts[Len(prompts)].cancelled
    /\ attempts = <<>>

\* C38 as stated: when HandleActivation returns success, at least one activation
\* request was made for every selected role; no selected role is resolved to no
\* target and left out of the batch.
C38_EverySelectedRoleIsRequested ==
    (Finished /\ err = NoError) =>
        \A i \in 1..Len(selected) :
            /\ i <= Len(resolved)
            /\ resolved[i].targets # <<>>
            /\ \E k \in 1..Len(attempts) : attempts[k].role = selected[i]

-----------------------------------------------------------------------------
(* A further claim about PromptMultiSelection.                             *)

\* C39: at every turn of the loop of PromptMultiSelection the current view is not
\* empty, holds entries of the original view only and none of them twice, so it has
\* at most as many entries as there are items; a view that is not the whole original
\* view came from a search and has at most 20 entries, as has every view that a
\* search has just shown.  So the limit given to tryParseSelections is at least 1, and
\* a selection that is returned without an error holds at least one item.
C39_ViewNeverEmptyNorRepeating ==
    /\ msPc = "read" =>
           /\ msCurrent # <<>>
           /\ \A k \in 1..Len(msCurrent) : msCurrent[k] \in 1..Len(msItems)
           /\ \A j, k \in 1..Len(msCurrent) : j # k => msCurrent[j] # msCurrent[k]
           /\ Len(msCurrent) <= Len(msItems)
           /\ (msCurrent # FullView(Len(msItems)) \/ msOutput.kind \in {"substring", "fuzzy"}) =>
                  Len(msCurrent) <= 20
    /\ (msPc = "returned" /\ msResult.err = NoError) =>
           /\ Len(msBefore) >= 1
           /\ msResult.chosen # <<>>
           /\ \A k \in 1..Len(msResult.chosen) :
                  \E i \in 1..Len(msItems) : msResult.chosen[k] = msItems[i]

C39_Witness ==
    /\ msPc = "read"
    /\ Len(msItems) = 23
    /\ msInput = <<"a">>
    /\ msOutput = Printed("substring", 20, 22)
    /\ Len(msCurrent) = 20

-----------------------------------------------------------------------------
(* A further claim about the filter engine.                                *)

\* C35: with management-group hints given, a role whose scope is no management-group
\* scope fails the management-group check and is not in the result of the filter,
\* also when its display name contains one of the hints.
C35_OtherScopesFailManagementGroupCheck ==
    (filterPc = "ret" /\ Len(filterCfg.ManagementGroups) > 0) =>
        /\ \A i \in 1..Len(filterIn) :
              ~IsManagementGroupScope(filterIn[i].Scope) =>
                  ~matchesManagementGroup(filterIn[i], filterCfg.ManagementGroups)
        /\ \A k \in 1..Len(filterOut) : IsManagementGroupScope(filterOut[k].Scope)

C35_Witness ==
    /\ filterPc = "ret"
    /\ filterCfg.ManagementGroups = <<<<"H","u","b">>>>
    /\ filterCfg.Subscriptions = <<>>
    /\ filterCfg.ResourceGroups = <<>>
    /\ filterCfg.ScopeContains = <<>>
    /\ filterCfg.Roles = <<>>
    /\ filterIn = <<RoleHub, RoleDev>>
    /\ Contains(ToLower(RoleHub.ScopeDisplay), <<"h","u","b">>)
    /\ filterOut = <<RoleDev>>

====
